---- MODULE Spec2Model ----
(***************************************************************************)
(* Model of yahoo-services: RateLimiter (services/rate_limiter.py),        *)
(* CacheService (services/cache_service.py) and the cache-first,          *)
(* rate-limited fetch of YahooFinanceService                               *)
(* (services/yahoo_finance_service.py), run by cooperative asyncio tasks.  *)
(*                                                                         *)
(* Time is counted in ticks; datetime.now() and time.time() both read the  *)
(* variable now.  A task runs without interruption between two awaits that *)
(* really suspend (redis reply, a full semaphore, asyncio.sleep); each     *)
(* action below is one such uninterrupted stretch.  The provider call      *)
(* (yfinance) is synchronous: while a task is in it no other task runs,    *)
(* only the clock advances.                                                *)
(***************************************************************************)
EXTENDS Integers, Sequences, FiniteSets, TLC

(* ------------------------------ bounds -------------------------------- *)
\* number of concurrent asyncio tasks that issue fetches
NumTasks == 3
\* total number of fetches issued in one run of the rate-limiter scenario,
\* of the cache-first scenario, and of direct cache calls in the cache scenario
MaxFetches == 5
LiveFetches == 4
CacheFetches == 3
ApiCalls == 3
\* per-call ttl arguments of a direct set: None, and -1 .. MaxTtlArg
MaxTtlArg == 1
\* ticks per minute, minutes per hour, hours per day (scaled down)
MinuteLen == 2
MinutesPerHour == 2
HoursPerDay == 2
\* ticks the clock may advance after construction while no task sleeps
Horizon == 6
LiveHorizon == 2
CacheHorizon == 3
ApiHorizon == 3
BackoffFetches == 4
BackoffHorizon == 3
LimiterCalls == 6
LimiterHorizon == 6
BatchHorizon == 1
\* direct calls of the limiter's operations in one run, and its clock ticks
OpsCalls == 5
OpsHorizon == 3
\* direct calls in one run of the wait scenario, its clock ticks, and how far
\* past the backoff cap the error streak goes
WaitCalls == 3
WaitHorizon == 2
WaitMargin == 2
\* fetches in one run of the shared-cache scenario and its clock ticks
SharedFetches == 3
SharedHorizon == 2
\* search_symbols calls in one run, its clock ticks, and the largest limit
SearchCalls == 2
SearchHorizon == 3
MaxLimit == 2
\* how far around its thresholds is_healthy is called
HealthMargin == 1
\* RateLimitConfig values (scaled down)
DailyLimit == 4
HourlyLimit == 3
MinuteLimit == 2
MaxConcurrent == 2
\* CacheConfig TTLs in ticks (scaled down)
QuoteTtl == 2
HistoricalTtl == 3
FundamentalTtl == 3
StatementTtl == 4
SearchTtl == 2
DefaultTtl == 1
\* provider prices 1..MaxPrice
MaxPrice == 1

(* ------------------------- program constants -------------------------- *)
\* RateLimitConfig.delay_between_requests (one tick is one second there)
DelayBetweenRequests == 1
\* RateLimitConfig.backoff_multiplier
BackoffMultiplier == 2
\* the cap in backoff_multiplier ** min(consecutive_errors, 5)
BackoffCap == 5

\* _get_quote_data: an info dict with fewer fields yields no quote
MinInfoFields == 5
\* is_healthy: usage above this percentage of a limit is unhealthy
UnhealthyUsagePercent == 95
\* is_healthy: more consecutive errors than this is unhealthy
MaxConsecutiveErrors == 10
\* RateLimitConfig.hourly_limit as shipped
DefaultHourlyLimit == 100

HourLen == MinutesPerHour * MinuteLen
DayLen == HoursPerDay * HourLen
\* the moment of construction: the last tick of a day, so that a day
\* boundary, then minute boundaries, then an hour boundary follow
StartTime == DayLen - 1

Tasks == 1 .. NumTasks
Symbols == {"AAPL", "TCS"}
Prices == 1 .. MaxPrice
\* a number the provider left out: info.get(...) is None
NullPrice == 0

\* Python's None, as a value that compares with every dict
None == [py_none |-> TRUE]
\* {}
EmptyDict == [k \in {} |-> 0]

\* truthiness of an Optional[Dict]: None and the empty dict are falsy
Truthy(x) == x # None /\ DOMAIN x # {}

\* {**a, **b}
Merge(a, b) ==
    [k \in DOMAIN a \cup DOMAIN b |-> IF k \in DOMAIN b THEN b[k] ELSE a[k]]

RECURSIVE Pow(_, _)
Pow(b, e) == IF e = 0 THEN 1 ELSE b * Pow(b, e - 1)

Min(a, b) == IF a < b THEN a ELSE b

VARIABLES
    now,        \* wall clock
    rl,         \* RateLimiter fields
    strategy,   \* RateLimitConfig.strategy
    svc,        \* YahooFinanceService statistics
    cache,      \* CacheService fields
    redis,      \* the redis database: set of [key, val, exp]
    redis_up,   \* FALSE: every redis command raises
    pc,         \* per task: where it is suspended
    req,        \* per task: arguments of its fetch
    local,      \* per task: locals that live across an await
    h,          \* per task: history of its current fetch
    last,       \* the fetch that returned last: arguments, result, history
    started,    \* fetches and direct cache calls issued so far
    budget,     \* how many of them one run issues
    adm,        \* permits granted in the current clock minute, hour, day
    call,       \* the last direct call of a service and what it returned
    prev,       \* the direct call before it
    batch,      \* the batch request of a route: symbols, fetches, response
    health      \* the limiter's configured limits and its last is_healthy()

vars == <<now, rl, strategy, svc, cache, redis, redis_up, pc, req, local, h,
          last, started, budget, adm, call, prev, batch, health>>

\* what the service layer never touches
routes == <<batch, health>>

(* ----------------------------- calendar ------------------------------- *)
\* now.date()
Date(t) == t \div DayLen
\* now.replace(minute=0, second=0, microsecond=0)
FloorHour(t) == t - (t % HourLen)
\* now.replace(second=0, microsecond=0)
FloorMinute(t) == t - (t % MinuteLen)

(* ---------------------------- RateLimiter ----------------------------- *)
RateLimiterInit(t) ==
    [ _initialized |-> FALSE,
      daily_requests |-> 0, hourly_requests |-> 0, minute_requests |-> 0,
      last_request_time |-> 0,
      last_reset_daily |-> Date(t),
      last_reset_hourly |-> FloorHour(t),
      last_reset_minute |-> FloorMinute(t),
      active_requests |-> 0,
      request_semaphore |-> MaxConcurrent,
      consecutive_errors |-> 0,
      total_requests |-> 0, total_errors |-> 0, total_delays |-> 0 ]

ResetDaily(r, t) ==
    IF Date(t) # r.last_reset_daily
    THEN [r EXCEPT !.daily_requests = 0, !.last_reset_daily = Date(t)]
    ELSE r

\* an hourly reset that is one tick late at the boundary
ResetHourlyLate(r, t) ==
    IF t > r.last_reset_hourly + HourLen
    THEN [r EXCEPT !.hourly_requests = 0, !.last_reset_hourly = FloorHour(t)]
    ELSE r

ResetHourly(r, t) ==
    IF t >= r.last_reset_hourly + HourLen
    THEN [r EXCEPT !.hourly_requests = 0, !.last_reset_hourly = FloorHour(t)]
    ELSE r

\* a minute counter that is cleared by every acquire_permit
ResetMinuteAlways(r, t) ==
    [r EXCEPT !.minute_requests = 0, !.last_reset_minute = FloorMinute(t)]

ResetMinute(r, t) ==
    IF t >= r.last_reset_minute + MinuteLen
    THEN [r EXCEPT !.minute_requests = 0, !.last_reset_minute = FloorMinute(t)]
    ELSE r

ResetCountersIfNeeded(r, t) == ResetMinute(ResetHourly(ResetDaily(r, t), t), t)

\* the three limit checks of acquire_permit: TRUE when one of them denies
\* limit checks that leave out the minute counter
LimitReachedDayOrHour(r) ==
    \/ r.daily_requests >= DailyLimit
    \/ r.hourly_requests >= HourlyLimit

\* the three limit checks of acquire_permit
LimitReached(r) ==
    \/ r.daily_requests >= DailyLimit
    \/ r.hourly_requests >= HourlyLimit
    \/ r.minute_requests >= MinuteLimit

\* acquire_permit up to its await: the state after the lazy reset and
\* "raise" (not initialized), "false" (a limit is reached) or "sem"
AcquireCheck(r, t) ==
    IF ~r._initialized THEN [rl |-> r, out |-> "raise"]
    ELSE LET r1 == ResetCountersIfNeeded(r, t) IN
         [rl |-> r1, out |-> IF LimitReached(r1) THEN "false" ELSE "sem"]

\* a semaphore that never suspends its caller
SemaphoreNeverLocked(r) == FALSE

\* asyncio.Semaphore.acquire() would suspend
SemaphoreLocked(r) == r.request_semaphore <= 0

\* a grant that takes the slot without counting the request as active
PermitGrantedUncounted(r) ==
    [r EXCEPT !.request_semaphore = @ - 1]

\* acquire_permit after its await: the slot is taken, active_requests += 1
PermitGranted(r) ==
    [r EXCEPT !.request_semaphore = @ - 1, !.active_requests = @ + 1]

\* a release_permit that forgets the semaphore
ReleaseWithoutSemaphore(r) == [r EXCEPT !.active_requests = @ - 1]

ReleasePermit(r) ==
    [r EXCEPT !.active_requests = @ - 1, !.request_semaphore = @ + 1]

\* a wait_if_needed whose backoff exponent is not capped
DelayNeededUncapped(r, t) ==
    LET time_since_last == t - r.last_request_time IN
    IF time_since_last < DelayBetweenRequests
    THEN LET delay_needed == DelayBetweenRequests - time_since_last IN
         IF strategy = "exponential_backoff" /\ r.consecutive_errors > 0
         THEN delay_needed * Pow(BackoffMultiplier, r.consecutive_errors)
         ELSE delay_needed
    ELSE 0

\* wait_if_needed: the sleep it asks for at time t (0: none)
DelayNeeded(r, t) ==
    LET time_since_last == t - r.last_request_time IN
    IF time_since_last < DelayBetweenRequests
    THEN LET delay_needed == DelayBetweenRequests - time_since_last IN
         IF strategy = "exponential_backoff" /\ r.consecutive_errors > 0
         THEN delay_needed
                * Pow(BackoffMultiplier, Min(r.consecutive_errors, BackoffCap))
         ELSE delay_needed
    ELSE 0

\* a wait_if_needed that also runs the lazy reset
WaitReturnWithReset(r, t, slept) ==
    [ResetCountersIfNeeded(r, t) EXCEPT
        !.total_delays = IF slept THEN @ + 1 ELSE @,
        !.last_request_time = t]

\* wait_if_needed returns at time t, after a sleep or without one
WaitReturn(r, t, slept) ==
    [r EXCEPT !.total_delays = IF slept THEN @ + 1 ELSE @,
              !.last_request_time = t]

\* get_statistics: the counters it reports
GetStatistics(r) ==
    [total_requests |-> r.total_requests, total_errors |-> r.total_errors,
     total_delays |-> r.total_delays, daily_requests |-> r.daily_requests,
     hourly_requests |-> r.hourly_requests,
     minute_requests |-> r.minute_requests,
     active_requests |-> r.active_requests,
     consecutive_errors |-> r.consecutive_errors,
     last_request_time |-> r.last_request_time]

\* a record_request that leaves consecutive_errors alone on success
RecordRequestKeepsErrors(r, success) ==
    LET r1 == [r EXCEPT !.total_requests = @ + 1,
                        !.daily_requests = @ + 1,
                        !.hourly_requests = @ + 1,
                        !.minute_requests = @ + 1] IN
    IF success
    THEN r1
    ELSE [r1 EXCEPT !.total_errors = @ + 1, !.consecutive_errors = @ + 1]

RecordRequest(r, success) ==
    LET r1 == [r EXCEPT !.total_requests = @ + 1,
                        !.daily_requests = @ + 1,
                        !.hourly_requests = @ + 1,
                        !.minute_requests = @ + 1] IN
    IF success
    THEN [r1 EXCEPT !.consecutive_errors = 0]
    ELSE [r1 EXCEPT !.total_errors = @ + 1, !.consecutive_errors = @ + 1]

\* an is_healthy that is unhealthy from the threshold on
UnhealthyAtThreshold(r, cfg) ==
    ~(\/ 100 * r.daily_requests >= UnhealthyUsagePercent * cfg.daily_limit
      \/ 100 * r.hourly_requests >= UnhealthyUsagePercent * cfg.hourly_limit
      \/ r.consecutive_errors >= MaxConsecutiveErrors)

\* is_healthy under the limits cfg; usage = requests / limit compared with
\* 0.95, in hundredths; a limit of 0 raises ZeroDivisionError, caught: False
IsHealthy(r, cfg) ==
    IF cfg.daily_limit = 0 \/ cfg.hourly_limit = 0 THEN FALSE
    ELSE IF \/ 100 * r.daily_requests > UnhealthyUsagePercent * cfg.daily_limit
            \/ 100 * r.hourly_requests > UnhealthyUsagePercent * cfg.hourly_limit
         THEN FALSE
    ELSE IF r.consecutive_errors > MaxConsecutiveErrors THEN FALSE
    ELSE TRUE

(* ------------------------------- redis -------------------------------- *)
\* GET key: the set holding the stored bytes, empty when there is no key
RedisGet(db, key) == {e.val : e \in {x \in db : x.key = key}}

\* a SETEX that leaves a key alone when it is already there
RedisSetexKeepsFirst(db, key, ttl, val, t) ==
    IF \E e \in db : e.key = key
    THEN db
    ELSE db \cup {[key |-> key, val |-> val, exp |-> t + ttl]}

\* SETEX key ttl val at time t
RedisSetex(db, key, ttl, val, t) ==
    {e \in db : e.key # key} \cup {[key |-> key, val |-> val, exp |-> t + ttl]}

\* DEL key
RedisDel(db, key) == {e \in db : e.key # key}

\* a store without expiry
RedisNeverExpires(db, t) == db

\* native expiry: at time t a key set at s with ttl T is gone once t > s + T
RedisExpire(db, t) == {e \in db : t <= e.exp}

(* ------------------------------- json --------------------------------- *)
\* json.dumps of a dict with string keys: its members, key by key
JsonDumps(d) == {<<k, d[k]>> : k \in DOMAIN d}
\* json.loads
JsonLoads(s) == [k \in {p[1] : p \in s} |-> (CHOOSE p \in s : p[1] = k)[2]]

(* --------------------------- CacheService ----------------------------- *)
CacheServiceInit ==
    [ _initialized |-> FALSE,
      hit_count |-> 0, miss_count |-> 0, set_count |-> 0, delete_count |-> 0 ]

GetCacheKey(data_type, identifier) == <<"yahoo", data_type, identifier>>

GetTtl(data_type) ==
    CASE data_type = "quote" -> QuoteTtl
      [] data_type = "historical" -> HistoricalTtl
      [] data_type = "fundamental" -> FundamentalTtl
      [] data_type = "statement" -> StatementTtl
      [] data_type = "search" -> SearchTtl
      [] data_type = "company" -> FundamentalTtl
      [] data_type = "statistics" -> QuoteTtl
      [] OTHER -> DefaultTtl

\* Optional[int] ttl: <<>> is None, <<n>> is n
NoTtl == << >>

\* cache_ttl = ttl or self._get_ttl(data_type)
CacheTtl(data_type, ttl) ==
    IF ttl # NoTtl /\ ttl[1] # 0 THEN ttl[1] ELSE GetTtl(data_type)

\* a stamping in which the payload's own keys win: {**stamps, **data}
StampUnderPayload(data, t, cache_ttl) ==
    Merge([_cached_at |-> t, _cache_ttl |-> cache_ttl], data)

\* data_with_timestamp
DataWithTimestamp(data, t, cache_ttl) ==
    Merge(data, [_cached_at |-> t, _cache_ttl |-> cache_ttl])

\* Each CacheService method answers [cache, redis, ret, exc]: the fields
\* afterwards, the database afterwards, the value returned, and whether an
\* exception left the method instead.

\* a get whose except clause lets the exception out
GetRaises(c, db) == [cache |-> c, redis |-> db, ret |-> None, exc |-> TRUE]

\* except Exception of get: log, return None
GetFailed(c, db) == [cache |-> c, redis |-> db, ret |-> None, exc |-> FALSE]
\* except Exception of set and of delete: log, return False
SetFailed(c, db) == [cache |-> c, redis |-> db, ret |-> FALSE, exc |-> FALSE]
DeleteFailed(c, db) == [cache |-> c, redis |-> db, ret |-> FALSE, exc |-> FALSE]

\* a get that, on a hit, gives the entry one more tick to live
CacheGetExtendsLife(c, db, up, data_type, identifier) ==
    IF ~up THEN GetFailed(c, db)
    ELSE LET cache_key == GetCacheKey(data_type, identifier)
             cached_data == RedisGet(db, cache_key) IN
         IF cached_data # {}
         THEN [cache |-> [c EXCEPT !.hit_count = @ + 1],
               redis |-> {IF e.key = cache_key THEN [e EXCEPT !.exp = @ + 1]
                                               ELSE e : e \in db},
               ret |-> JsonLoads(CHOOSE v \in cached_data : TRUE),
               exc |-> FALSE]
         ELSE [cache |-> [c EXCEPT !.miss_count = @ + 1], redis |-> db,
               ret |-> None, exc |-> FALSE]

\* a get that never finds the key
CacheGetAlwaysMiss(c, db, up, data_type, identifier) ==
    [cache |-> [c EXCEPT !.miss_count = @ + 1], redis |-> db, ret |-> None,
     exc |-> FALSE]

\* get after redis answered the GET (up: redis answered, else the call raised)
CacheGetReply(c, db, up, data_type, identifier) ==
    IF ~up THEN GetFailed(c, db)
    ELSE LET cached_data == RedisGet(db, GetCacheKey(data_type, identifier)) IN
         IF cached_data # {}
         THEN [cache |-> [c EXCEPT !.hit_count = @ + 1], redis |-> db,
               ret |-> JsonLoads(CHOOSE v \in cached_data : TRUE),
               exc |-> FALSE]
         ELSE [cache |-> [c EXCEPT !.miss_count = @ + 1], redis |-> db,
               ret |-> None, exc |-> FALSE]

\* CacheService.get
CacheGet(c, db, up, data_type, identifier) ==
    IF ~c._initialized
    THEN [cache |-> c, redis |-> db, ret |-> None, exc |-> FALSE]
    ELSE CacheGetReply(c, db, up, data_type, identifier)

\* a set that reports success without storing anything
CacheSetReplyForgets(c, db, up, cache_key, cache_ttl, val, t) ==
    IF up /\ cache_ttl > 0
    THEN [cache |-> [c EXCEPT !.set_count = @ + 1], redis |-> db,
          ret |-> TRUE, exc |-> FALSE]
    ELSE SetFailed(c, db)

\* set after redis answered the SETEX at time t; redis refuses an expire
\* time that is not positive
CacheSetReply(c, db, up, cache_key, cache_ttl, val, t) ==
    IF up /\ cache_ttl > 0
    THEN [cache |-> [c EXCEPT !.set_count = @ + 1],
          redis |-> RedisSetex(db, cache_key, cache_ttl, val, t),
          ret |-> TRUE, exc |-> FALSE]
    ELSE SetFailed(c, db)

\* CacheService.set called and answered at time t
CacheSet(c, db, up, data_type, identifier, data, ttl, t) ==
    IF ~c._initialized
    THEN [cache |-> c, redis |-> db, ret |-> FALSE, exc |-> FALSE]
    ELSE LET cache_ttl == CacheTtl(data_type, ttl) IN
         CacheSetReply(c, db, up, GetCacheKey(data_type, identifier), cache_ttl,
                       JsonDumps(DataWithTimestamp(data, t, cache_ttl)), t)

\* CacheService.delete
CacheDelete(c, db, up, data_type, identifier) ==
    LET cache_key == GetCacheKey(data_type, identifier) IN
    IF ~c._initialized
    THEN [cache |-> c, redis |-> db, ret |-> FALSE, exc |-> FALSE]
    ELSE IF ~up THEN DeleteFailed(c, db)
    ELSE IF RedisGet(db, cache_key) # {}
         THEN [cache |-> [c EXCEPT !.delete_count = @ + 1],
               redis |-> RedisDel(db, cache_key), ret |-> TRUE, exc |-> FALSE]
         ELSE [cache |-> c, redis |-> db, ret |-> FALSE, exc |-> FALSE]

(* ----------------------- YahooFinanceService -------------------------- *)
\* the cache category each operation reads and writes
Category(operation) ==
    CASE operation = "quote" -> "quote"
      [] operation = "historical" -> "historical"
      [] operation = "company" -> "company"
      [] operation = "fundamentals" -> "fundamental"
      [] operation = "statements" -> "statement"
      [] operation = "statistics" -> "statistics"

\* ticker.info: a dict from the provider's field names to Optional numbers,
\* <<>> for None and <<v>> for the number v
\* info.get(field, 0): a missing field read as zero
InfoGetOrZero(info, field) ==
    IF field \in DOMAIN info THEN info[field] ELSE <<0>>

\* info.get(field)
InfoGet(info, field) == IF field \in DOMAIN info THEN info[field] ELSE << >>

\* the canonical keys of a quote and the provider field each is read from
QuoteFields ==
    <<<<"price", "regularMarketPrice">>, <<"change", "regularMarketChange">>,
      <<"change_percent", "regularMarketChangePercent">>,
      <<"volume", "volume">>, <<"market_cap", "marketCap">>,
      <<"pe_ratio", "trailingPE">>, <<"dividend_yield", "dividendYield">>,
      <<"high_52_week", "fiftyTwoWeekHigh">>,
      <<"low_52_week", "fiftyTwoWeekLow">>, <<"open", "regularMarketOpen">>,
      <<"previous_close", "regularMarketPreviousClose">>,
      <<"day_high", "dayHigh">>, <<"day_low", "dayLow">> >>

\* the same for the fundamentals payload
FundamentalFields ==
    <<<<"pe_ratio", "trailingPE">>, <<"pb_ratio", "priceToBook">>,
      <<"peg_ratio", "pegRatio">>, <<"roe", "returnOnEquity">>,
      <<"roa", "returnOnAssets">>, <<"debt_to_equity", "debtToEquity">>,
      <<"current_ratio", "currentRatio">>, <<"quick_ratio", "quickRatio">>,
      <<"dividend_yield", "dividendYield">>, <<"payout_ratio", "payoutRatio">>,
      <<"market_cap", "marketCap">>, <<"enterprise_value", "enterpriseValue">>,
      <<"revenue_growth", "revenueGrowth">>,
      <<"earnings_growth", "earningsGrowth">>,
      <<"profit_margin", "profitMargins">>,
      <<"operating_margin", "operatingMargins">>,
      <<"gross_margin", "grossMargins">>, <<"book_value", "bookValue">>,
      <<"cash_per_share", "totalCashPerShare">>, <<"beta", "beta">>,
      <<"forward_pe", "forwardPE">>,
      <<"price_to_sales", "priceToSalesTrailing12Months">> >>

\* the dict literal of a payload builder: symbol, one key per field read
\* with info.get, and the timestamp
Payload(fields, info, symbol, t) ==
    [k \in {"symbol", "timestamp"} \cup {fields[i][1] : i \in 1 .. Len(fields)}
       |-> IF k = "symbol" THEN symbol
           ELSE IF k = "timestamp" THEN t
           ELSE InfoGet(info, fields[CHOOSE i \in 1 .. Len(fields) :
                                        fields[i][1] = k][2])]

\* _get_quote_data on ticker.info = info at time t; info is a dict or None
GetQuoteData(info, symbol, t) ==
    IF info = None THEN None
    ELSE IF Cardinality(DOMAIN info) < MinInfoFields THEN None
    ELSE Payload(QuoteFields, info, symbol, t)

\* _get_fundamental_data on ticker.info = info at time t
GetFundamentalData(info, symbol, t) ==
    IF info = None THEN None
    ELSE IF DOMAIN info = {} THEN None
    ELSE Payload(FundamentalFields, info, symbol, t)

\* YahooFinanceConfig.indian_symbol_suffix
IndianSymbolSuffix == ".NS"

\* str.endswith
EndsWith(s, suffix) ==
    /\ Len(s) >= Len(suffix)
    /\ SubSeq(s, Len(s) - Len(suffix) + 1, Len(s)) = suffix

\* _convert_symbol: the symbol the provider is asked for
ConvertSymbol(symbol, market) ==
    IF market = "IN" /\ ~(EndsWith(symbol, ".NS") \/ EndsWith(symbol, ".BO"))
    THEN symbol \o IndianSymbolSuffix
    ELSE symbol

\* what _execute_request can return for a request: None (the provider call
\* raised, or returned nothing usable) or the canonical payload
UpstreamOutcomes(q) ==
    {None} \cup
    IF q.operation = "fundamentals"
    THEN {[symbol |-> q.symbol, market_cap |-> p] : p \in {NullPrice} \cup Prices}
    ELSE {[symbol |-> q.symbol, price |-> p] : p \in {NullPrice} \cup Prices}

\* a _make_request that releases the permit only when the provider answered
ReleaseOnResultOnly(r, res) == IF res = None THEN r ELSE ReleasePermit(r)

\* the finally clause of _make_request
FinallyRelease(r, res) == ReleasePermit(r)

\* what a fetch hands to its caller when _make_request returned mr and the
\* write-through is over
FetchResult(mr) == mr

\* the except clause of get_quote, get_fundamentals, ...: log, return None
FetchExcept == None

NoRequest == [operation |-> "quote", symbol |-> "AAPL", market |-> "US",
              use_cache |-> FALSE]
NoLocal == [wake_at |-> 0, cache_ttl |-> 0, val |-> {}]
\* history of one fetch: permits granted and released, provider calls made,
\* whether it was suspended on the semaphore, how it ended, and what
\* _make_request returned
NoHistory == [acquired |-> 0, released |-> 0, upstream |-> 0, waited |-> FALSE,
              cause |-> "none", mr |-> None]
NoLast == [req |-> NoRequest, result |-> None, h |-> NoHistory]
NoHealth == [checked |-> FALSE, ret |-> TRUE,
             daily_limit |-> DailyLimit, hourly_limit |-> HourlyLimit]
NoCall == [op |-> "none", data_type |-> "quote", identifier |-> "AAPL",
           data |-> None, ttl |-> NoTtl, ret |-> None, at |-> 0]

\* the event loop is inside a synchronous provider call
LoopBlocked == \E t \in Tasks : pc[t] = "upstream"

\* the fetch of task t returns res; its locals die
Return(t, res, h1) ==
    /\ pc' = [pc EXCEPT ![t] = "idle"]
    /\ last' = [req |-> req[t], result |-> res, h |-> h1]
    /\ req' = [req EXCEPT ![t] = NoRequest]
    /\ h' = [h EXCEPT ![t] = NoHistory]
    /\ local' = [local EXCEPT ![t] = NoLocal]

\* an except clause that counts the failure in the service only
RequestFailedUnrecorded(t, r0, cause) ==
    /\ rl' = r0
    /\ svc' = [svc EXCEPT !.total_requests = @ + 1, !.failed_requests = @ + 1]
    /\ Return(t, FetchResult(None), [h[t] EXCEPT !.cause = cause])
    /\ UNCHANGED adm

\* the except clause of _make_request, then the return of the fetch
RequestFailed(t, r0, cause) ==
    /\ rl' = RecordRequest(r0, FALSE)
    /\ svc' = [svc EXCEPT !.total_requests = @ + 1, !.failed_requests = @ + 1]
    /\ Return(t, FetchResult(None), [h[t] EXCEPT !.cause = cause])
    /\ UNCHANGED adm

\* a _make_request that gives its permit back before it waits and calls
AfterAcquireReleasesEarly(t, r0) ==
    LET r1 == ReleasePermit(PermitGranted(r0))
        d == DelayNeeded(r1, now)
    IN  /\ h' = [h EXCEPT ![t].acquired = @ + 1, ![t].released = @ + 1]
        /\ adm' = [k \in DOMAIN adm |-> adm[k] + 1]
        /\ UNCHANGED <<svc, req, last>>
        /\ IF d > 0
           THEN /\ rl' = r1
                /\ pc' = [pc EXCEPT ![t] = "sleep"]
                /\ local' = [local EXCEPT ![t].wake_at = now + d]
           ELSE /\ rl' = [r1 EXCEPT !.last_request_time = now]
                /\ pc' = [pc EXCEPT ![t] = "upstream"]
                /\ UNCHANGED local

\* acquire_permit returned True: wait_if_needed up to its sleep, or up to the
\* provider call
AfterAcquire(t, r0) ==
    LET r1 == PermitGranted(r0)
        d == DelayNeeded(r1, now)
    IN  /\ h' = [h EXCEPT ![t].acquired = @ + 1]
        /\ adm' = [k \in DOMAIN adm |-> adm[k] + 1]
        /\ UNCHANGED <<svc, req, last>>
        /\ IF d > 0
           THEN /\ rl' = r1
                /\ pc' = [pc EXCEPT ![t] = "sleep"]
                /\ local' = [local EXCEPT ![t].wake_at = now + d]
           ELSE /\ rl' = [r1 EXCEPT !.last_request_time = now]
                /\ pc' = [pc EXCEPT ![t] = "upstream"]
                /\ UNCHANGED local

\* _make_request from its first line to its first suspension or its return
EnterMakeRequest(t) ==
    LET a == AcquireCheck(rl, now) IN
    IF a.out = "raise" THEN RequestFailed(t, a.rl, "acquire_raised")
    ELSE IF a.out = "false" THEN RequestFailed(t, a.rl, "denied")
    ELSE IF SemaphoreLocked(a.rl)
         THEN /\ rl' = a.rl
              /\ pc' = [pc EXCEPT ![t] = "sem_wait"]
              /\ h' = [h EXCEPT ![t].waited = TRUE]
              /\ UNCHANGED <<svc, req, local, last, adm>>
         ELSE AfterAcquire(t, a.rl)

(* --------------------------- search_symbols --------------------------- *)
\* common_stocks, in the order of the list
CommonStocks ==
    << [symbol |-> "AAPL", name |-> "Apple Inc.", exchange |-> "NASDAQ"],
       [symbol |-> "MSFT", name |-> "Microsoft Corporation", exchange |-> "NASDAQ"],
       [symbol |-> "GOOGL", name |-> "Alphabet Inc.", exchange |-> "NASDAQ"],
       [symbol |-> "AMZN", name |-> "Amazon.com Inc.", exchange |-> "NASDAQ"],
       [symbol |-> "TSLA", name |-> "Tesla Inc.", exchange |-> "NASDAQ"],
       [symbol |-> "RELIANCE.NS", name |-> "Reliance Industries Limited",
        exchange |-> "NSE"],
       [symbol |-> "TCS.NS", name |-> "Tata Consultancy Services Limited",
        exchange |-> "NSE"],
       [symbol |-> "HDFCBANK.NS", name |-> "HDFC Bank Limited", exchange |-> "NSE"] >>

\* str.upper(): every lower-case letter becomes its capital, every other
\* character stays
RECURSIVE Upper(_)
Upper(str) ==
    LET lower == "abcdefghijklmnopqrstuvwxyz"
        upper == "ABCDEFGHIJKLMNOPQRSTUVWXYZ"
        c == SubSeq(str, 1, 1)
        at == {i \in 1 .. Len(lower) : SubSeq(lower, i, i) = c}
    IN  IF Len(str) = 0 THEN ""
        ELSE (IF at = {} THEN c
              ELSE LET i == CHOOSE i \in at : TRUE IN SubSeq(upper, i, i))
             \o Upper(SubSeq(str, 2, Len(str)))

\* `q in str` on strings
Contains(str, q) ==
    \E i \in 1 .. Len(str) - Len(q) + 1 : SubSeq(str, i, i + Len(q) - 1) = q

\* the test of the loop over common_stocks
StockMatches(query_upper, stock) ==
    \/ Contains(Upper(stock.symbol), query_upper)
    \/ Contains(Upper(stock.name), query_upper)

\* the loop over common_stocks from index i on: append a match, then break
\* when the list has reached the limit
RECURSIVE SearchLoop(_, _, _, _)
SearchLoop(query_upper, limit, i, results) ==
    IF i > Len(CommonStocks) THEN results
    ELSE IF StockMatches(query_upper, CommonStocks[i])
    THEN LET appended == Append(results, CommonStocks[i]) IN
         IF Len(appended) >= limit THEN appended
         ELSE SearchLoop(query_upper, limit, i + 1, appended)
    ELSE SearchLoop(query_upper, limit, i + 1, results)

\* f"search_{query}_{limit}"
SearchCacheKey(query, limit) == "search_" \o query \o "_" \o ToString(limit)

\* search_symbols(query, limit), from its cache lookup to its return
SearchSymbols(query, limit) ==
    /\ started < budget.calls
    /\ now < budget.until
    /\ started' = started + 1
    /\ LET cache_key == SearchCacheKey(query, limit)
           g == CacheGet(cache, redis, redis_up, "search", cache_key)
           results == SearchLoop(Upper(query), limit, 1, <<>>)
           s == CacheSet(g.cache, g.redis, redis_up, "search", cache_key,
                         [results |-> results], NoTtl, now)
       IN IF g.exc
          THEN /\ cache' = g.cache /\ redis' = g.redis
               /\ call' = [op |-> "search_symbols", query |-> query,
                           limit |-> limit, ret |-> <<>>, hit |-> FALSE,
                           at |-> now]
          ELSE IF Truthy(g.ret)
          THEN /\ cache' = g.cache /\ redis' = g.redis
               /\ call' = [op |-> "search_symbols", query |-> query,
                           limit |-> limit,
                           ret |-> IF "results" \in DOMAIN g.ret
                                   THEN g.ret.results ELSE <<>>,
                           hit |-> TRUE, at |-> now]
          ELSE /\ cache' = s.cache /\ redis' = s.redis
               /\ call' = [op |-> "search_symbols", query |-> query,
                           limit |-> limit,
                           ret |-> IF s.exc THEN <<>> ELSE results,
                           hit |-> FALSE, at |-> now]
    /\ prev' = call
    /\ UNCHANGED <<now, strategy, rl, svc, redis_up, pc, req, local, h, last,
                   budget, adm, batch, health>>

(* ------------------------------- routes ------------------------------- *)
\* dict.get(field): None when the key is absent
Get(data, field) == IF field \in DOMAIN data THEN data[field] ELSE NullPrice

\* d[k] = v on a dict
DictPut(d, k, v) == [x \in DOMAIN d \cup {k} |-> IF x = k THEN v ELSE d[x]]

\* d[k] = v on a dict whose order of insertion matters: pairs <<key, value>>
OrderedPut(d, k, v) ==
    IF \E i \in 1 .. Len(d) : d[i][1] = k
    THEN [i \in 1 .. Len(d) |-> IF d[i][1] = k THEN <<k, v>> ELSE d[i]]
    ELSE Append(d, <<k, v>>)

\* settings.global_context_symbols as shipped, split and stripped
GlobalContextSymbols ==
    <<"^GSPC", "^IXIC", "^DJI", "^VIX", "GC=F", "USDINR=X", "CL=F", "^N225",
      "^HSI">>

\* symbol_map.get(symbol); NoKey: None
NoKey == ""
SymbolMap(symbol) ==
    CASE symbol = "^GSPC" -> "sp500"
      [] symbol = "^IXIC" -> "nasdaq"
      [] symbol = "^DJI" -> "dow_jones"
      [] symbol = "^VIX" -> "vix"
      [] symbol = "GC=F" -> "gold"
      [] symbol = "USDINR=X" -> "usd_inr"
      [] symbol = "CL=F" -> "crude_oil"
      [] OTHER -> NoKey

RequiredKeys ==
    <<"sp500", "nasdaq", "dow_jones", "vix", "gold", "usd_inr", "crude_oil">>
CriticalKeys == {"sp500", "nasdaq", "vix"}

\* MarketData(price=..., change_percent=change_percent or 0.0).model_dump()
MarketDataDump(price, change_percent) ==
    [price |-> price, change_percent |-> change_percent]
\* VIXData(value=price).model_dump()
VIXDataDump(price) == [value |-> price]

\* fetch_quote_data: what service.get_quote returned
FetchQuoteData(data) == data

\* the loop of get_global_context over zip(symbols, results), from index i;
\* raised: ForexData, which api.models.responses does not define, was used
RECURSIVE BuildResponse(_, _, _, _)
BuildResponse(symbols, results, i, acc) ==
    IF i > Len(symbols) \/ i > Len(results) \/ acc.raised THEN acc
    ELSE LET symbol == symbols[i]
             data == results[i]
             key == SymbolMap(symbol)
             failed == [acc EXCEPT !.failed_symbols = Append(@, symbol)]
         IN  IF data = None
             THEN BuildResponse(symbols, results, i + 1, failed)
             ELSE IF key = NoKey
             THEN BuildResponse(symbols, results, i + 1, acc)
             ELSE IF Get(data, "price") = NullPrice
             THEN BuildResponse(symbols, results, i + 1, failed)
             ELSE IF key = "vix"
             THEN BuildResponse(symbols, results, i + 1,
                     [acc EXCEPT !.response_data =
                         DictPut(@, key, VIXDataDump(Get(data, "price")))])
             ELSE IF key = "usd_inr"
             THEN [acc EXCEPT !.raised = TRUE]
             ELSE BuildResponse(symbols, results, i + 1,
                     [acc EXCEPT !.response_data =
                         DictPut(@, key,
                                 MarketDataDump(Get(data, "price"),
                                                Get(data, "change_percent")))])

\* what a route hands back: the body of a 200, or the error of a 503 or 500
NoOut == [kind |-> "none", body |-> EmptyDict, missing |-> <<>>,
          failed_symbols |-> <<>>]

\* get_global_context after the gather, at time t
GlobalContext(symbols, results, t) ==
    LET b == BuildResponse(symbols, results, 1,
                 [response_data |-> EmptyDict, failed_symbols |-> <<>>,
                  raised |-> FALSE])
        Missing(k) == k \notin DOMAIN b.response_data
        missing_keys == SelectSeq(RequiredKeys, Missing)
    IN  IF b.raised
        THEN [NoOut EXCEPT !.kind = "internal_error"]
        ELSE IF \E i \in 1 .. Len(missing_keys) : missing_keys[i] \in CriticalKeys
        THEN [NoOut EXCEPT !.kind = "service_unavailable",
                           !.missing = missing_keys,
                           !.failed_symbols = b.failed_symbols]
        ELSE [NoOut EXCEPT !.kind = "ok",
                           !.body = DictPut(b.response_data, "timestamp", t)]

\* FundamentalsData(market_cap=data.get("market_cap"), ...).model_dump()
FundamentalsFields ==
    {"market_cap", "pe_ratio", "pb_ratio", "roe", "debt_to_equity",
     "profit_margin", "operating_margin"}
FundamentalsDataDump(data) == [f \in FundamentalsFields |-> Get(data, f)]

\* fetch_fundamentals_data: what it makes of service.get_fundamentals's result
FetchFundamentalsData(symbol, data) ==
    IF data = None THEN [symbol |-> symbol, data |-> None]
    ELSE [symbol |-> symbol, data |-> FundamentalsDataDump(data)]

\* the loop of get_fundamentals_batch over results, from index i
RECURSIVE BuildFundamentals(_, _, _)
BuildFundamentals(results, i, acc) ==
    IF i > Len(results) THEN acc
    ELSE LET result == results[i] IN
         IF result.data = None
         THEN BuildFundamentals(results, i + 1,
                 [acc EXCEPT !.failed_symbols = Append(@, result.symbol)])
         ELSE BuildFundamentals(results, i + 1,
                 [acc EXCEPT !.fundamentals_map =
                     OrderedPut(@, result.symbol, result.data)])

\* a get_fundamentals_batch that fails as a whole when one symbol failed
FundamentalsBatchAllOrNothing(results, t) ==
    IF \E i \in 1 .. Len(results) : results[i].data = None
    THEN [NoOut EXCEPT !.kind = "internal_error"]
    ELSE [NoOut EXCEPT
            !.kind = "ok",
            !.body = [fundamentals |->
                         BuildFundamentals(results, 1,
                            [fundamentals_map |-> <<>>,
                             failed_symbols |-> <<>>]).fundamentals_map,
                      timestamp |-> t]]

\* get_fundamentals_batch after the gather, at time t; failed_symbols is
\* logged only
FundamentalsBatch(results, t) ==
    LET b == BuildFundamentals(results, 1,
                 [fundamentals_map |-> <<>>, failed_symbols |-> <<>>])
    IN  [NoOut EXCEPT !.kind = "ok",
                      !.body = [fundamentals |-> b.fundamentals_map,
                                timestamp |-> t],
                      !.failed_symbols = b.failed_symbols]

\* no batch request yet. returned: per fetch, what the service returned;
\* done: the fetches in the order they completed
NoBatch == [kind |-> "none", symbols |-> <<>>, returned |-> <<>>,
            done |-> <<>>, state |-> "none", out |-> NoOut]

\* a gather that hands the results back in the order of completion
GatherInCompletionOrder(b) ==
    [i \in 1 .. Len(b.done) |->
        IF b.kind = "fundamentals"
        THEN FetchFundamentalsData(b.symbols[b.done[i]], b.returned[b.done[i]])
        ELSE FetchQuoteData(b.returned[b.done[i]])]

\* results = await asyncio.gather(*tasks): the results of the wrappers, in
\* the order of the tasks
GatherResults(b) ==
    [i \in 1 .. Len(b.symbols) |->
        IF b.kind = "fundamentals"
        THEN FetchFundamentalsData(b.symbols[i], b.returned[i])
        ELSE FetchQuoteData(b.returned[i])]

(* ------------------------------ actions ------------------------------- *)
\* a caller invokes get_quote / get_fundamentals / ... on an idle task t
StartFetch(t, operation, symbol, market, use_cache) ==
    /\ pc[t] = "idle"
    /\ ~LoopBlocked
    /\ started < budget.calls
    /\ now < budget.until
    /\ started' = started + 1
    /\ req' = [req EXCEPT ![t] = [operation |-> operation, symbol |-> symbol,
                                  market |-> market, use_cache |-> use_cache]]
    /\ pc' = [pc EXCEPT ![t] = "called"]
    /\ UNCHANGED <<now, strategy, rl, svc, cache, redis, redis_up, local, h,
                   last, budget, adm, call, prev>>

\* the fetch runs to its first suspension: the GET of cache_service.get, or
\* (no cache, or cache not initialized: get returns None at once) into
\* _make_request
BeginFetch(t) ==
    /\ pc[t] = "called"
    /\ ~LoopBlocked
    /\ IF req[t].use_cache /\ cache._initialized
       THEN /\ pc' = [pc EXCEPT ![t] = "redis_get"]
            /\ UNCHANGED <<rl, svc, req, local, h, last, adm>>
       ELSE EnterMakeRequest(t)
    /\ UNCHANGED <<now, strategy, cache, redis, redis_up, started, budget,
                   call, prev>>

\* redis answers the GET of cache_service.get
RedisGetReturn(t) ==
    /\ pc[t] = "redis_get"
    /\ ~LoopBlocked
    /\ LET g == CacheGetReply(cache, redis, redis_up,
                              Category(req[t].operation), req[t].symbol) IN
       /\ cache' = g.cache
       /\ IF g.exc
          THEN /\ Return(t, FetchExcept, [h[t] EXCEPT !.cause = "exception"])
               /\ UNCHANGED <<rl, svc, adm>>
          ELSE IF Truthy(g.ret)
          THEN /\ Return(t, g.ret, [h[t] EXCEPT !.cause = "hit"])
               /\ UNCHANGED <<rl, svc, adm>>
          ELSE EnterMakeRequest(t)
    /\ UNCHANGED <<now, strategy, redis, redis_up, started, budget, call, prev>>

\* a slot of request_semaphore is free for a suspended acquire_permit
SemAcquired(t) ==
    /\ pc[t] = "sem_wait"
    /\ ~LoopBlocked
    /\ ~SemaphoreLocked(rl)
    /\ AfterAcquire(t, rl)
    /\ UNCHANGED <<now, strategy, cache, redis, redis_up, started, budget,
                   call, prev>>

\* asyncio.sleep(delay_needed) of wait_if_needed is over
WakeUp(t) ==
    /\ pc[t] = "sleep"
    /\ ~LoopBlocked
    /\ now >= local[t].wake_at
    /\ rl' = [rl EXCEPT !.total_delays = @ + 1, !.last_request_time = now]
    /\ pc' = [pc EXCEPT ![t] = "upstream"]
    /\ local' = [local EXCEPT ![t] = NoLocal]
    /\ UNCHANGED <<now, strategy, svc, cache, redis, redis_up, req, h, last,
                   started, budget, adm, call, prev>>

\* a fetch that caches whatever _make_request returned
WritesThroughAlways(result, use_cache) == use_cache

\* `if result and use_cache:` of get_quote, get_fundamentals, ...
WritesThrough(result, use_cache) == Truthy(result) /\ use_cache

\* _execute_request returns out; record_request(True), the finally clause,
\* and the fetch's write-through up to the SETEX
UpstreamReturn(t, out) ==
    /\ pc[t] = "upstream"
    /\ out \in UpstreamOutcomes(req[t])
    /\ LET r1 == RecordRequest(rl, TRUE)
           r2 == FinallyRelease(r1, out)
           data_type == Category(req[t].operation)
           cache_ttl == CacheTtl(data_type, NoTtl)
           h1 == [h[t] EXCEPT !.upstream = @ + 1, !.mr = out,
                     !.released = @ + (r2.request_semaphore - r1.request_semaphore)]
       IN /\ rl' = r2
          /\ svc' = [svc EXCEPT !.total_requests = @ + 1,
                                !.successful_requests = @ + 1]
          /\ IF WritesThrough(out, req[t].use_cache) /\ cache._initialized
             THEN /\ pc' = [pc EXCEPT ![t] = "redis_set"]
                  /\ local' = [local EXCEPT ![t] =
                        [wake_at |-> 0, cache_ttl |-> cache_ttl,
                         val |-> JsonDumps(DataWithTimestamp(out, now, cache_ttl))]]
                  /\ h' = [h EXCEPT ![t] = h1]
                  /\ UNCHANGED <<req, last>>
             ELSE Return(t, FetchResult(out),
                         [h1 EXCEPT !.cause = IF out = None THEN "upstream_none"
                                                            ELSE "ok"])
    /\ UNCHANGED <<now, strategy, cache, redis, redis_up, started, budget, adm,
                   call, prev>>

\* redis answers the SETEX of cache_service.set; the fetch returns
RedisSetReturn(t) ==
    /\ pc[t] = "redis_set"
    /\ ~LoopBlocked
    /\ LET s == CacheSetReply(cache, redis, redis_up,
                   GetCacheKey(Category(req[t].operation), req[t].symbol),
                   local[t].cache_ttl, local[t].val, now) IN
       /\ cache' = s.cache
       /\ redis' = s.redis
       /\ IF s.exc
          THEN Return(t, FetchExcept, [h[t] EXCEPT !.cause = "exception"])
          ELSE Return(t, FetchResult(h[t].mr), [h[t] EXCEPT !.cause = "ok"])
    /\ UNCHANGED <<now, strategy, rl, svc, redis_up, started, budget, adm,
                   call, prev>>

\* RateLimiter.initialize
RateLimiterInitialize ==
    /\ ~rl._initialized
    /\ ~LoopBlocked
    /\ rl' = [rl EXCEPT !._initialized = TRUE]
    /\ UNCHANGED <<now, strategy, svc, cache, redis, redis_up, pc, req,
                   local, h, last, started, budget, adm, call, prev>>

\* CacheService.initialize: the ping succeeded
CacheInitialize ==
    /\ ~cache._initialized
    /\ ~LoopBlocked
    /\ redis_up
    /\ cache' = [cache EXCEPT !._initialized = TRUE]
    /\ UNCHANGED <<now, strategy, rl, svc, redis, redis_up, pc, req,
                   local, h, last, started, budget, adm, call, prev>>

\* the redis server becomes unreachable: from now on every command raises
RedisFail ==
    /\ redis_up
    /\ redis_up' = FALSE
    /\ UNCHANGED <<now, strategy, rl, svc, cache, redis, pc, req,
                   local, h, last, started, budget, adm, call, prev>>

\* one tick of the wall clock; redis drops the keys whose ttl is over
Tick ==
    /\ \/ now < budget.until
       \/ \E t \in Tasks : pc[t] \in {"sleep", "lim_sleep"}
                                /\ local[t].wake_at > now
    /\ now' = now + 1
    /\ redis' = RedisExpire(redis, now + 1)
    /\ adm' = [minute |-> IF FloorMinute(now + 1) # FloorMinute(now) THEN 0 ELSE adm.minute,
               hour |-> IF FloorHour(now + 1) # FloorHour(now) THEN 0 ELSE adm.hour,
               day |-> IF Date(now + 1) # Date(now) THEN 0 ELSE adm.day]
    /\ UNCHANGED <<strategy, rl, svc, cache, redis_up, pc, req,
                   local, h, last, started, budget, call, prev>>

\* a caller awaits rate_limiter.is_healthy()
IsHealthyCall ==
    /\ ~health.checked
    /\ health' = [health EXCEPT !.checked = TRUE,
                                !.ret = IsHealthy(rl, health)]
    /\ UNCHANGED <<now, strategy, rl, svc, cache, redis, redis_up, pc, req,
                   local, h, last, started, budget, adm, call, prev, batch>>

(* -------------------------- batch requests ---------------------------- *)
\* a route hands its per-symbol coroutines to asyncio.gather: one task per
\* symbol, in the order of the symbols, none of them run yet
BatchStart(kind, symbols) ==
    /\ batch.state = "none"
    /\ \A t \in Tasks : pc[t] = "idle"
    /\ Len(symbols) <= NumTasks
    /\ batch' = [NoBatch EXCEPT !.kind = kind, !.symbols = symbols,
                                !.returned = [i \in 1 .. Len(symbols) |-> None],
                                !.state = "gathering"]
    /\ pc' = [t \in Tasks |-> IF t <= Len(symbols) THEN "called" ELSE pc[t]]
    /\ req' = [t \in Tasks |->
                 IF t <= Len(symbols)
                 THEN [operation |-> IF kind = "fundamentals"
                                     THEN "fundamentals" ELSE "quote",
                       symbol |-> symbols[t],
                       market |-> IF kind = "fundamentals" THEN "IN" ELSE "US",
                       use_cache |-> TRUE]
                 ELSE req[t]]
    /\ started' = started + Len(symbols)
    /\ UNCHANGED <<now, strategy, rl, svc, cache, redis, redis_up, local, h,
                   last, budget, adm, call, prev, health>>

\* the event loop runs what is ready in the order it became ready: the tasks
\* of a gather start in their order, before any suspended one is resumed
MayStart(t) == \A u \in Tasks : u < t => pc[u] # "called"
MayResume == \A u \in Tasks : pc[u] # "called"

\* the fetch of task t has taken a step: if it returned, the task is done
\* and holds its result
Collect(t) ==
    batch' = IF pc'[t] = "idle"
             THEN [batch EXCEPT !.returned[t] = last'.result,
                                !.done = Append(@, t)]
             ELSE batch

\* every task of the gather is done: the route builds its response
BatchJoin ==
    /\ batch.state = "gathering"
    /\ Len(batch.done) = Len(batch.symbols)
    /\ batch' = [batch EXCEPT
                   !.state = "returned",
                   !.out = IF batch.kind = "fundamentals"
                           THEN FundamentalsBatch(GatherResults(batch), now)
                           ELSE GlobalContext(batch.symbols,
                                              GatherResults(batch), now)]
    /\ UNCHANGED <<now, strategy, rl, svc, cache, redis, redis_up, pc, req,
                   local, h, last, started, budget, adm, call, prev, health>>

(* ------------------- direct calls of the RateLimiter ------------------ *)
\* a direct call of the limiter by task t returns (or suspends)
LimReturn(t, op, ret) ==
    /\ prev' = call
    /\ call' = [op |-> op, task |-> t, ret |-> ret, at |-> now]

\* task t awaits rate_limiter.acquire_permit(): up to its return, its raise
\* or its suspension on the semaphore
LimAcquire(t) ==
    /\ pc[t] = "idle"
    /\ h[t].acquired = 0
    /\ started < budget.calls
    /\ now < budget.until
    /\ started' = started + 1
    /\ LET a == AcquireCheck(rl, now) IN
       IF a.out = "raise"
       THEN /\ rl' = a.rl
            /\ LimReturn(t, "acquire_permit", "raise")
            /\ UNCHANGED <<pc, h>>
       ELSE IF a.out = "false"
       THEN /\ rl' = a.rl
            /\ LimReturn(t, "acquire_permit", "false")
            /\ UNCHANGED <<pc, h>>
       ELSE IF SemaphoreLocked(a.rl)
       THEN /\ rl' = a.rl
            /\ pc' = [pc EXCEPT ![t] = "sem_wait"]
            /\ h' = [h EXCEPT ![t].waited = TRUE]
            /\ LimReturn(t, "acquire_permit", "suspended")
       ELSE /\ rl' = PermitGranted(a.rl)
            /\ h' = [h EXCEPT ![t].acquired = 1]
            /\ LimReturn(t, "acquire_permit", "true")
            /\ UNCHANGED pc
    /\ UNCHANGED <<now, strategy, svc, cache, redis, redis_up, req, local,
                   last, budget, adm, batch, health>>

\* a slot is free for the suspended acquire_permit of task t: it returns True
LimSemAcquired(t) ==
    /\ pc[t] = "sem_wait"
    /\ ~SemaphoreLocked(rl)
    /\ rl' = PermitGranted(rl)
    /\ pc' = [pc EXCEPT ![t] = "idle"]
    /\ h' = [h EXCEPT ![t].acquired = 1]
    /\ LimReturn(t, "acquire_permit", "true")
    /\ UNCHANGED <<now, strategy, svc, cache, redis, redis_up, req, local,
                   last, started, budget, adm, batch, health>>

\* task t, holding a permit, calls rate_limiter.release_permit()
LimRelease(t) ==
    /\ pc[t] = "idle"
    /\ h[t].acquired = 1
    /\ rl' = ReleasePermit(rl)
    /\ h' = [h EXCEPT ![t] = NoHistory]
    /\ LimReturn(t, "release_permit", "none")
    /\ UNCHANGED <<now, strategy, svc, cache, redis, redis_up, pc, req, local,
                   last, started, budget, adm, batch, health>>

\* a caller awaits rate_limiter.record_request(success)
LimRecord(success) ==
    /\ started < budget.calls
    /\ now < budget.until
    /\ started' = started + 1
    /\ rl' = RecordRequest(rl, success)
    /\ prev' = call
    /\ call' = [op |-> "record_request", task |-> 0, ret |-> "none",
                at |-> now, success |-> success]
    /\ UNCHANGED <<now, strategy, svc, cache, redis, redis_up, pc, req, local,
                   h, last, budget, adm, batch, health>>

\* task t awaits rate_limiter.wait_if_needed(): up to its return or its sleep
LimWait(t) ==
    /\ pc[t] = "idle"
    /\ started < budget.calls
    /\ now < budget.until
    /\ started' = started + 1
    /\ LET d == DelayNeeded(rl, now) IN
       IF d > 0
       THEN /\ pc' = [pc EXCEPT ![t] = "lim_sleep"]
            /\ local' = [local EXCEPT ![t].wake_at = now + d]
            /\ LimReturn(t, "wait_if_needed", "suspended")
            /\ UNCHANGED rl
       ELSE /\ rl' = WaitReturn(rl, now, FALSE)
            /\ LimReturn(t, "wait_if_needed", "none")
            /\ UNCHANGED <<pc, local>>
    /\ UNCHANGED <<now, strategy, svc, cache, redis, redis_up, req, h, last,
                   budget, adm, batch, health>>

\* the sleep of task t's wait_if_needed is over: it returns
LimWake(t) ==
    /\ pc[t] = "lim_sleep"
    /\ now >= local[t].wake_at
    /\ rl' = WaitReturn(rl, now, TRUE)
    /\ pc' = [pc EXCEPT ![t] = "idle"]
    /\ local' = [local EXCEPT ![t] = NoLocal]
    /\ LimReturn(t, "wait_if_needed", "none")
    /\ UNCHANGED <<now, strategy, svc, cache, redis, redis_up, req, h, last,
                   started, budget, adm, batch, health>>

\* a caller awaits rate_limiter.is_healthy()
LimHealthy ==
    /\ started < budget.calls
    /\ now < budget.until
    /\ started' = started + 1
    /\ health' = [health EXCEPT !.checked = TRUE,
                                !.ret = IsHealthy(rl, health)]
    /\ LimReturn(0, "is_healthy",
                 IF IsHealthy(rl, health) THEN "true" ELSE "false")
    /\ UNCHANGED <<now, strategy, rl, svc, cache, redis, redis_up, pc, req,
                   local, h, last, budget, adm, batch>>

\* a caller awaits rate_limiter.get_statistics()
LimStatistics ==
    /\ started < budget.calls
    /\ now < budget.until
    /\ started' = started + 1
    /\ prev' = call
    /\ call' = [op |-> "get_statistics", task |-> 0, ret |-> "dict",
                at |-> now, statistics |-> GetStatistics(rl)]
    /\ UNCHANGED <<now, strategy, rl, svc, cache, redis, redis_up, pc, req,
                   local, h, last, budget, adm, batch, health>>

(* ---------------------------- health route --------------------------- *)
\* the settings the health route reads
DefaultSettings ==
    [service_name |-> "yahoo-services", yahoo_finance_enabled |-> TRUE,
     alpha_vantage_enabled |-> FALSE, alpha_vantage_api_key |-> ""]

\* health_check of routes/health.py at time t: its try block; nothing in it
\* reads the rate limiter or any other service
HealthData(settings, t) ==
    [status |-> "healthy",
     service |-> settings.service_name,
     yahoo_finance_available |-> settings.yahoo_finance_enabled,
     alpha_vantage_available |->
        settings.alpha_vantage_enabled /\ settings.alpha_vantage_api_key # "",
     timestamp |-> t]

\* GET /health
HealthCheck(settings) ==
    /\ call.op # "health_check"
    /\ prev' = call
    /\ call' = [op |-> "health_check", at |-> now,
                ret |-> HealthData(settings, now)]
    /\ UNCHANGED <<now, strategy, rl, svc, cache, redis, redis_up, pc, req,
                   local, h, last, started, budget, adm, batch, health>>

(* --------------------- payload builders, called ---------------------- *)
\* _execute_request reads ticker.info (held in call.info) and builds the
\* quote of symbol from it
GetQuoteDataCall(symbol) ==
    /\ call.op = "info"
    /\ prev' = call
    /\ call' = [op |-> "_get_quote_data", info |-> call.info,
                symbol |-> symbol, at |-> now,
                ret |-> GetQuoteData(call.info, symbol, now)]
    /\ UNCHANGED <<now, strategy, rl, svc, cache, redis, redis_up, pc, req,
                   local, h, last, started, budget, adm, batch, health>>

\* the same for the fundamentals of symbol
GetFundamentalDataCall(symbol) ==
    /\ call.op = "info"
    /\ prev' = call
    /\ call' = [op |-> "_get_fundamental_data", info |-> call.info,
                symbol |-> symbol, at |-> now,
                ret |-> GetFundamentalData(call.info, symbol, now)]
    /\ UNCHANGED <<now, strategy, rl, svc, cache, redis, redis_up, pc, req,
                   local, h, last, started, budget, adm, batch, health>>

(* ------------------ direct calls of the CacheService ------------------ *)
ApiReturn(op, data_type, identifier, data, ttl, r) ==
    /\ cache' = r.cache
    /\ redis' = r.redis
    /\ prev' = call
    /\ call' = [op |-> op, data_type |-> data_type, identifier |-> identifier,
                data |-> data, ttl |-> ttl, ret |-> r.ret, at |-> now]
    /\ started' = started + 1
    /\ UNCHANGED <<now, strategy, rl, svc, redis_up, pc, req, local, h, last,
                   budget, adm>>

\* await cache_service.set(data_type, identifier, data, ttl)
ApiSet(data_type, identifier, data, ttl) ==
    /\ started < budget.calls
    /\ now < budget.until
    /\ ~LoopBlocked
    /\ ApiReturn("set", data_type, identifier, data, ttl,
                 CacheSet(cache, redis, redis_up, data_type, identifier, data,
                          ttl, now))

\* await cache_service.get(data_type, identifier)
ApiGet(data_type, identifier) ==
    /\ started < budget.calls
    /\ now < budget.until
    /\ ~LoopBlocked
    /\ ApiReturn("get", data_type, identifier, None, NoTtl,
                 CacheGet(cache, redis, redis_up, data_type, identifier))

\* await cache_service.delete(data_type, identifier)
ApiDelete(data_type, identifier) ==
    /\ started < budget.calls
    /\ now < budget.until
    /\ ~LoopBlocked
    /\ LET r == CacheDelete(cache, redis, redis_up, data_type, identifier) IN
       ApiReturn("delete", data_type, identifier, None, NoTtl, r)

(* --------------------------- specifications --------------------------- *)
\* the services as constructed, whatever the configured strategy
InitServices ==
    /\ now = StartTime
    /\ rl = RateLimiterInit(StartTime)
    /\ svc = [total_requests |-> 0, successful_requests |-> 0, failed_requests |-> 0]
    /\ cache = CacheServiceInit
    /\ redis = {}
    /\ redis_up = TRUE
    /\ pc = [t \in Tasks |-> "idle"]
    /\ req = [t \in Tasks |-> NoRequest]
    /\ local = [t \in Tasks |-> NoLocal]
    /\ h = [t \in Tasks |-> NoHistory]
    /\ last = NoLast
    /\ started = 0
    /\ adm = [minute |-> 0, hour |-> 0, day |-> 0]
    /\ call = NoCall
    /\ prev = NoCall

\* RateLimitConfig(): the default strategy; no request at the routes yet
InitCommon ==
    InitServices /\ strategy = "fixed_delay" /\ batch = NoBatch /\ health = NoHealth

\* Rate-limiter scenario: the services as constructed; every task fetches
\* quotes with use_cache=False, so CacheService is never entered.
Init == InitCommon /\ budget = [calls |-> MaxFetches, until |-> StartTime + Horizon]

TaskStep(t) ==
    \/ BeginFetch(t)
    \/ SemAcquired(t)
    \/ WakeUp(t)
    \/ \E out \in UpstreamOutcomes(req[t]) : UpstreamReturn(t, out)

Next ==
    \/ \E t \in Tasks : StartFetch(t, "quote", "AAPL", "US", FALSE)
          /\ UNCHANGED routes
    \/ \E t \in Tasks : BeginFetch(t) /\ UNCHANGED routes
    \/ \E t \in Tasks : SemAcquired(t) /\ UNCHANGED routes
    \/ \E t \in Tasks : WakeUp(t) /\ UNCHANGED routes
    \/ \E t \in Tasks : \E out \in UpstreamOutcomes(req[t]) :
          UpstreamReturn(t, out) /\ UNCHANGED routes
    \/ RateLimiterInitialize /\ UNCHANGED routes
    \/ Tick /\ UNCHANGED routes

Spec == Init /\ [][Next]_vars

\* The same over a shorter run, with the scheduling of asyncio: a task that
\* can continue is continued, a provider call returns, the clock advances.
InitLive ==
    InitCommon /\ budget = [calls |-> LiveFetches, until |-> StartTime + LiveHorizon]

FairSpec ==
    /\ InitLive
    /\ [][Next]_vars
    /\ \A t \in Tasks : WF_vars(TaskStep(t) /\ UNCHANGED routes)
    /\ WF_vars(Tick /\ UNCHANGED routes)

\* Backoff scenario: RateLimitConfig(strategy=EXPONENTIAL_BACKOFF) and a
\* provider that is down: every provider call fails.
InitBackoff ==
    /\ InitServices
    /\ strategy = "exponential_backoff"
    /\ batch = NoBatch
    /\ health = NoHealth
    /\ budget = [calls |-> BackoffFetches, until |-> StartTime + BackoffHorizon]

NextBackoff ==
    \/ \E t \in Tasks : StartFetch(t, "quote", "AAPL", "US", FALSE)
          /\ UNCHANGED routes
    \/ \E t \in Tasks : BeginFetch(t) /\ UNCHANGED routes
    \/ \E t \in Tasks : SemAcquired(t) /\ UNCHANGED routes
    \/ \E t \in Tasks : WakeUp(t) /\ UNCHANGED routes
    \/ \E t \in Tasks : UpstreamReturn(t, None) /\ UNCHANGED routes
    \/ RateLimiterInitialize /\ UNCHANGED routes
    \/ Tick /\ UNCHANGED routes

SpecBackoff == InitBackoff /\ [][NextBackoff]_vars

\* Cache-first scenario: one task fetches with and without the cache; redis
\* may fail for good; a caller may delete keys.
InitCache ==
    InitCommon /\ budget = [calls |-> CacheFetches, until |-> StartTime + CacheHorizon]

NextCache ==
    \/ \E s \in Symbols, u \in BOOLEAN : StartFetch(1, "quote", s, "US", u)
          /\ UNCHANGED routes
    \/ BeginFetch(1) /\ UNCHANGED routes
    \/ RedisGetReturn(1) /\ UNCHANGED routes
    \/ WakeUp(1) /\ UNCHANGED routes
    \/ \E out \in UpstreamOutcomes(req[1]) : UpstreamReturn(1, out)
          /\ UNCHANGED routes
    \/ RedisSetReturn(1) /\ UNCHANGED routes
    \/ \E s \in Symbols : ApiDelete("quote", s) /\ UNCHANGED routes
    \/ RateLimiterInitialize /\ UNCHANGED routes
    \/ CacheInitialize /\ UNCHANGED routes
    \/ RedisFail /\ UNCHANGED routes
    \/ Tick /\ UNCHANGED routes

SpecCache == InitCache /\ [][NextCache]_vars

\* Cache scenario: direct calls of CacheService with every argument.
ApiTypes == {"quote", "news"}
ApiIds == {"AAPL"}
ApiData == {[symbol |-> "AAPL", price |-> MaxPrice], EmptyDict,
            [price |-> 0, _cached_at |-> 0]}
ApiTtls == {NoTtl} \cup {<<n>> : n \in -1 .. MaxTtlArg}

InitApi ==
    InitCommon /\ budget = [calls |-> ApiCalls, until |-> StartTime + ApiHorizon]

NextApi ==
    \/ \E c \in ApiTypes, i \in ApiIds, d \in ApiData, x \in ApiTtls :
          ApiSet(c, i, d, x)
          /\ UNCHANGED routes
    \/ \E c \in ApiTypes, i \in ApiIds : ApiGet(c, i) /\ UNCHANGED routes
    \/ \E c \in ApiTypes, i \in ApiIds : ApiDelete(c, i) /\ UNCHANGED routes
    \/ CacheInitialize /\ UNCHANGED routes
    \/ RedisFail /\ UNCHANGED routes
    \/ Tick /\ UNCHANGED routes

SpecApi == InitApi /\ [][NextApi]_vars

\* Limiter scenario: direct calls of the RateLimiter by concurrent tasks;
\* the requests recorded are successful ones.
InitLimiter ==
    InitCommon
    /\ budget = [calls |-> LimiterCalls, until |-> StartTime + LimiterHorizon]

NextLimiter ==
    \/ \E t \in Tasks : LimAcquire(t)
    \/ \E t \in Tasks : LimSemAcquired(t)
    \/ \E t \in Tasks : LimRelease(t)
    \/ LimRecord(TRUE)
    \/ RateLimiterInitialize /\ UNCHANGED routes
    \/ Tick /\ UNCHANGED routes

SpecLimiter == InitLimiter /\ [][NextLimiter]_vars

\* Payload scenario: the provider answers with any info dict over a few of
\* its field names (one of them read by no builder), each field a number
\* or None, or with no dict at all; a payload builder runs on it.
DrawnFields ==
    {"regularMarketPrice", "volume", "marketCap", "trailingPE", "dayHigh",
     "currency"}
InfoValues == {<< >>} \cup {<<v>> : v \in 0 .. MaxPrice}
Infos == {None} \cup UNION {[S -> InfoValues] : S \in SUBSET DrawnFields}

InitPayload ==
    /\ now = StartTime
    /\ rl = RateLimiterInit(StartTime)
    /\ strategy = "fixed_delay"
    /\ svc = [total_requests |-> 0, successful_requests |-> 0,
              failed_requests |-> 0]
    /\ cache = CacheServiceInit
    /\ redis = {}
    /\ redis_up = TRUE
    /\ pc = [t \in Tasks |-> "idle"]
    /\ req = [t \in Tasks |-> NoRequest]
    /\ local = [t \in Tasks |-> NoLocal]
    /\ h = [t \in Tasks |-> NoHistory]
    /\ last = NoLast
    /\ started = 0
    /\ budget = [calls |-> 0, until |-> StartTime]
    /\ adm = [minute |-> 0, hour |-> 0, day |-> 0]
    /\ \E info \in Infos : call = [op |-> "info", info |-> info]
    /\ prev = NoCall
    /\ batch = NoBatch
    /\ health = NoHealth

NextPayload ==
    \/ \E symbol \in Symbols : GetQuoteDataCall(symbol)
    \/ \E symbol \in Symbols : GetFundamentalDataCall(symbol)

SpecPayload == InitPayload /\ [][NextPayload]_vars

\* Operations scenario: every public operation of the RateLimiter called
\* directly, in any order, before or after initialize(), as the clock runs
\* across window boundaries.
InitOps ==
    InitCommon
    /\ budget = [calls |-> OpsCalls, until |-> StartTime + OpsHorizon]

NextOps ==
    \/ \E t \in Tasks : LimAcquire(t)
    \/ \E t \in Tasks : LimSemAcquired(t)
    \/ \E t \in Tasks : LimRelease(t)
    \/ \E t \in Tasks : LimWait(t)
    \/ \E t \in Tasks : LimWake(t)
    \/ \E success \in BOOLEAN : LimRecord(success)
    \/ LimHealthy
    \/ LimStatistics
    \/ RateLimiterInitialize /\ UNCHANGED routes
    \/ Tick /\ UNCHANGED routes

SpecOps == InitOps /\ [][NextOps]_vars

\* RateLimitStrategy: the four members of the enum
Strategies ==
    {"fixed_delay", "exponential_backoff", "token_bucket", "sliding_window"}

\* the limiter after n more failed requests were recorded
RECURSIVE AfterFailures(_, _)
AfterFailures(r, n) ==
    IF n = 0 THEN r ELSE AfterFailures(RecordRequest(r, FALSE), n - 1)

\* Wait scenario: wait_if_needed and record_request called directly on a
\* limiter of any strategy that has seen a streak of failed requests, short
\* of the backoff cap or beyond it; the clock runs on while a call sleeps.
InitWait ==
    /\ now = StartTime
    /\ svc = [total_requests |-> 0, successful_requests |-> 0, failed_requests |-> 0]
    /\ cache = CacheServiceInit
    /\ redis = {}
    /\ redis_up = TRUE
    /\ pc = [t \in Tasks |-> "idle"]
    /\ req = [t \in Tasks |-> NoRequest]
    /\ local = [t \in Tasks |-> NoLocal]
    /\ h = [t \in Tasks |-> NoHistory]
    /\ last = NoLast
    /\ started = 0
    /\ adm = [minute |-> 0, hour |-> 0, day |-> 0]
    /\ call = NoCall
    /\ prev = NoCall
    /\ batch = NoBatch
    /\ health = NoHealth
    /\ budget = [calls |-> WaitCalls, until |-> StartTime + WaitHorizon]
    /\ \E s \in Strategies, e \in 0 .. BackoffCap + WaitMargin :
          /\ strategy = s
          /\ rl = AfterFailures([RateLimiterInit(StartTime) EXCEPT
                                   !._initialized = TRUE], e)

NextWait ==
    \/ \E t \in Tasks : LimWait(t)
    \/ \E t \in Tasks : LimWake(t)
    \/ \E success \in BOOLEAN : LimRecord(success)
    \/ Tick /\ UNCHANGED routes

SpecWait == InitWait /\ [][NextWait]_vars

\* Shared-cache scenario: concurrent get_quote fetches with use_cache=True
\* for one company, under either market and with or without the exchange
\* suffix, on initialized services. The fetches of one run are too few to
\* exhaust the pool: none is ever suspended on the semaphore.
SharedRequests == {<<"TCS", "US">>, <<"TCS", "IN">>, <<"TCS.NS", "IN">>}

InitShared ==
    /\ now = StartTime
    /\ rl = [RateLimiterInit(StartTime) EXCEPT !._initialized = TRUE]
    /\ strategy = "fixed_delay"
    /\ svc = [total_requests |-> 0, successful_requests |-> 0, failed_requests |-> 0]
    /\ cache = [CacheServiceInit EXCEPT !._initialized = TRUE]
    /\ redis = {}
    /\ redis_up = TRUE
    /\ pc = [t \in Tasks |-> "idle"]
    /\ req = [t \in Tasks |-> NoRequest]
    /\ local = [t \in Tasks |-> NoLocal]
    /\ h = [t \in Tasks |-> NoHistory]
    /\ last = NoLast
    /\ started = 0
    /\ budget = [calls |-> SharedFetches, until |-> StartTime + SharedHorizon]
    /\ adm = [minute |-> 0, hour |-> 0, day |-> 0]
    /\ call = NoCall
    /\ prev = NoCall
    /\ batch = NoBatch
    /\ health = NoHealth

NextShared ==
    \/ \E t \in Tasks, q \in SharedRequests :
          StartFetch(t, "quote", q[1], q[2], TRUE) /\ UNCHANGED routes
    \/ \E t \in Tasks : BeginFetch(t) /\ UNCHANGED routes
    \/ \E t \in Tasks : RedisGetReturn(t) /\ UNCHANGED routes
    \/ \E t \in Tasks : WakeUp(t) /\ UNCHANGED routes
    \/ \E t \in Tasks : \E out \in UpstreamOutcomes(req[t]) :
          UpstreamReturn(t, out) /\ UNCHANGED routes
    \/ \E t \in Tasks : RedisSetReturn(t) /\ UNCHANGED routes
    \/ Tick /\ UNCHANGED routes

SpecShared == InitShared /\ [][NextShared]_vars

\* Search scenario: one caller at a time searches the catalogue with queries
\* that match many entries, a few, one or none, in either case of letters,
\* under any limit from 0 on; the cache is initialized or not yet, redis may
\* fail, the clock runs over the search TTL.
SearchQueries == {"a", "Inc", "tcs", "xyz"}
SearchLimits == 0 .. MaxLimit

InitSearch ==
    InitCommon
    /\ budget = [calls |-> SearchCalls, until |-> StartTime + SearchHorizon]

NextSearch ==
    \/ \E query \in SearchQueries, limit \in SearchLimits :
          SearchSymbols(query, limit)
    \/ CacheInitialize /\ UNCHANGED routes
    \/ RedisFail /\ UNCHANGED routes
    \/ Tick /\ UNCHANGED routes

SpecSearch == InitSearch /\ [][NextSearch]_vars

\* Aggregate scenario: get_global_context after its gather, for every
\* combination of per-symbol results, under the symbols as shipped and under
\* a configuration that leaves ^VIX out.
ConfiguredSymbols ==
    {GlobalContextSymbols,
     SelectSeq(GlobalContextSymbols, LAMBDA x : x # "^VIX")}
\* the c-th thing get_quote can return for symbol: a quote with no price, a
\* quote with a price, or None
QuoteResult(symbol, c) ==
    IF c > MaxPrice THEN None ELSE [symbol |-> symbol, price |-> c]

InitAggregate ==
    /\ InitServices
    /\ strategy = "fixed_delay"
    /\ health = NoHealth
    /\ budget = [calls |-> 0, until |-> StartTime]
    /\ \E symbols \in ConfiguredSymbols :
       \E c \in [1 .. Len(symbols) -> NullPrice .. MaxPrice + 1] :
          batch = [NoBatch EXCEPT
                     !.kind = "global_context",
                     !.symbols = symbols,
                     !.returned = [i \in 1 .. Len(symbols) |->
                                      QuoteResult(symbols[i], c[i])],
                     !.done = [i \in 1 .. Len(symbols) |-> i],
                     !.state = "gathering"]

NextAggregate == BatchJoin

SpecAggregate == InitAggregate /\ [][NextAggregate]_vars

\* Report scenario: the limiter stands at some usage and error count,
\* get_global_context has gathered its quotes (each None or priced); the
\* limiter is asked is_healthy, the health route is called and the
\* aggregate is built, in any order.
ReportSettings ==
    {DefaultSettings,
     [DefaultSettings EXCEPT !.alpha_vantage_enabled = TRUE,
                             !.alpha_vantage_api_key = "key"]}

InitReport ==
    /\ now = StartTime
    /\ \E d \in {0, HourlyLimit},
          e \in {0, MaxConsecutiveErrors + HealthMargin} :
          rl = [RateLimiterInit(StartTime) EXCEPT
                  !._initialized = TRUE,
                  !.daily_requests = d, !.hourly_requests = d,
                  !.consecutive_errors = e,
                  !.total_requests = d + e, !.total_errors = e]
    /\ strategy = "fixed_delay"
    /\ svc = [total_requests |-> 0, successful_requests |-> 0,
              failed_requests |-> 0]
    /\ cache = CacheServiceInit
    /\ redis = {}
    /\ redis_up = TRUE
    /\ pc = [t \in Tasks |-> "idle"]
    /\ req = [t \in Tasks |-> NoRequest]
    /\ local = [t \in Tasks |-> NoLocal]
    /\ h = [t \in Tasks |-> NoHistory]
    /\ last = NoLast
    /\ started = 0
    /\ budget = [calls |-> 0, until |-> StartTime]
    /\ adm = [minute |-> 0, hour |-> 0, day |-> 0]
    /\ call = NoCall
    /\ prev = NoCall
    /\ health = NoHealth
    /\ \E symbols \in ConfiguredSymbols :
       \E c \in [1 .. Len(symbols) -> {MaxPrice, MaxPrice + 1}] :
          batch = [NoBatch EXCEPT
                     !.kind = "global_context",
                     !.symbols = symbols,
                     !.returned = [i \in 1 .. Len(symbols) |->
                                      QuoteResult(symbols[i], c[i])],
                     !.done = [i \in 1 .. Len(symbols) |-> i],
                     !.state = "gathering"]

NextReport ==
    \/ IsHealthyCall
    \/ \E settings \in ReportSettings : HealthCheck(settings) /\ UNCHANGED routes
    \/ BatchJoin

SpecReport == InitReport /\ [][NextReport]_vars

\* Batch scenario: one request at a route, its gather of one fetch per
\* symbol through the services, and the response; the limiter and the cache
\* may or may not have been initialized before the request, redis may fail.
FundamentalsRequests ==
    {<<"TCS", "AAPL">>, <<"AAPL", "TCS", "INFY">>, <<"AAPL", "TCS", "AAPL">>}
GlobalContextRequests ==
    {<<"^GSPC", "^IXIC", "^VIX">>, <<"^VIX", "USDINR=X", "^N225">>}

\* the services as constructed, or after they have served one fetch from
\* the provider at StartTime
InitBatch ==
    /\ now = StartTime
    /\ \E served \in BOOLEAN :
          IF served
          THEN /\ rl = RecordRequest(
                         [RateLimiterInit(StartTime) EXCEPT
                            !._initialized = TRUE,
                            !.last_request_time = StartTime], TRUE)
               /\ svc = [total_requests |-> 1, successful_requests |-> 1,
                         failed_requests |-> 0]
          ELSE /\ rl = RateLimiterInit(StartTime)
               /\ svc = [total_requests |-> 0, successful_requests |-> 0,
                         failed_requests |-> 0]
    /\ strategy = "fixed_delay"
    /\ cache = CacheServiceInit
    /\ redis = {}
    /\ redis_up = TRUE
    /\ pc = [t \in Tasks |-> "idle"]
    /\ req = [t \in Tasks |-> NoRequest]
    /\ local = [t \in Tasks |-> NoLocal]
    /\ h = [t \in Tasks |-> NoHistory]
    /\ last = NoLast
    /\ started = 0
    /\ budget = [calls |-> NumTasks, until |-> StartTime + BatchHorizon]
    /\ adm = [minute |-> 0, hour |-> 0, day |-> 0]
    /\ call = NoCall
    /\ prev = NoCall
    /\ batch = NoBatch
    /\ health = NoHealth

NextBatch ==
    \/ \E symbols \in FundamentalsRequests : BatchStart("fundamentals", symbols)
    \/ \E symbols \in GlobalContextRequests :
          BatchStart("global_context", symbols)
    \/ \E t \in Tasks : MayStart(t) /\ BeginFetch(t) /\ Collect(t)
          /\ UNCHANGED health
    \/ \E t \in Tasks : MayResume /\ RedisGetReturn(t) /\ Collect(t)
          /\ UNCHANGED health
    \/ \E t \in Tasks : MayResume /\ SemAcquired(t) /\ Collect(t)
          /\ UNCHANGED health
    \/ \E t \in Tasks : MayResume /\ WakeUp(t) /\ Collect(t)
          /\ UNCHANGED health
    \/ \E t \in Tasks : \E out \in UpstreamOutcomes(req[t]) :
          UpstreamReturn(t, out) /\ Collect(t) /\ UNCHANGED health
    \/ \E t \in Tasks : MayResume /\ RedisSetReturn(t) /\ Collect(t)
          /\ UNCHANGED health
    \/ BatchJoin
    \/ batch.state = "none" /\ RateLimiterInitialize /\ UNCHANGED routes
    \/ batch.state = "none" /\ CacheInitialize /\ UNCHANGED routes
    \/ RedisFail /\ UNCHANGED routes
    \/ Tick /\ UNCHANGED routes

SpecBatch == InitBatch /\ [][NextBatch]_vars

\* Health scenario: is_healthy on a limiter whose counters stand anywhere
\* near zero or near the thresholds, under the limits of this model or the
\* shipped hourly limit; limits are positive.
HealthLimits == {DailyLimit, DefaultHourlyLimit}
HealthCounts ==
    (0 .. DailyLimit + 1)
    \cup ((UnhealthyUsagePercent * DefaultHourlyLimit) \div 100 - HealthMargin
             .. DefaultHourlyLimit + 1)
HealthErrors == 0 .. MaxConsecutiveErrors + HealthMargin + 1

InitHealth ==
    /\ now = StartTime
    /\ \E d \in HealthCounts, hh \in HealthCounts, m \in 0 .. 1,
          e \in HealthErrors :
          /\ m <= hh /\ hh <= d
          /\ rl = [RateLimiterInit(StartTime) EXCEPT
                     !._initialized = TRUE,
                     !.daily_requests = d, !.hourly_requests = hh,
                     !.minute_requests = m, !.consecutive_errors = e,
                     !.total_requests = d + e, !.total_errors = e]
    /\ \E dl \in HealthLimits, hl \in HealthLimits :
          health = [NoHealth EXCEPT !.daily_limit = dl, !.hourly_limit = hl]
    /\ strategy = "fixed_delay"
    /\ svc = [total_requests |-> 0, successful_requests |-> 0, failed_requests |-> 0]
    /\ cache = CacheServiceInit
    /\ redis = {}
    /\ redis_up = TRUE
    /\ pc = [t \in Tasks |-> "idle"]
    /\ req = [t \in Tasks |-> NoRequest]
    /\ local = [t \in Tasks |-> NoLocal]
    /\ h = [t \in Tasks |-> NoHistory]
    /\ last = NoLast
    /\ started = 0
    /\ budget = [calls |-> 0, until |-> StartTime]
    /\ adm = [minute |-> 0, hour |-> 0, day |-> 0]
    /\ call = NoCall
    /\ prev = NoCall
    /\ batch = NoBatch

NextHealth == IsHealthyCall

SpecHealth == InitHealth /\ [][NextHealth]_vars

(* ======================= rate limiter properties ====================== *)
\* tasks whose acquire_permit returned True and whose release_permit has
\* not been called yet
Outstanding == {t \in Tasks : h[t].acquired - h[t].released = 1}

AllIdle == \A t \in Tasks : pc[t] = "idle"

\* C1: in every reachable state the number of outstanding permits
\* (acquire_permit returned True, release_permit not yet called for it) is at
\* most max_concurrent_requests.
C1_OutstandingPermitsBounded == Cardinality(Outstanding) <= MaxConcurrent

\* C1 witness: the pool is exhausted while a further fetch is suspended in
\* acquire_permit.
C1_PoolExhausted ==
    /\ Cardinality(Outstanding) = MaxConcurrent
    /\ \E t \in Tasks : pc[t] = "sem_wait"

\* C2 (as the claim states it): the fetches admitted to the provider within
\* one clock minute, hour or day never exceed that window's limit.
C2_AdmittedWithinLimits ==
    /\ adm.minute <= MinuteLimit
    /\ adm.hour <= HourlyLimit
    /\ adm.day <= DailyLimit

C4_ReleaseExactlyOnce ==
    /\ \A t \in Tasks :
          /\ h[t].acquired \in {0, 1}
          /\ h[t].released \in {0, 1}
          /\ h[t].released <= h[t].acquired
          /\ pc[t] \in {"sleep", "upstream"} =>
                h[t].acquired = 1 /\ h[t].released = 0
          /\ pc[t] \in {"idle", "called", "redis_get", "sem_wait"} =>
                h[t].acquired = 0
          /\ pc[t] = "redis_set" => h[t].acquired = 1 /\ h[t].released = 1
    /\ last.h.cause \in {"ok", "upstream_none"} =>
          last.h.acquired = 1 /\ last.h.released = 1
    /\ last.h.cause \in {"denied", "acquire_raised", "hit", "none"} =>
          last.h.acquired = 0 /\ last.h.released = 0
    /\ rl.active_requests = Cardinality(Outstanding)
    /\ rl.request_semaphore = MaxConcurrent - Cardinality(Outstanding)

\* C4 witness: a fetch whose provider call returned nothing has returned, and
\* it released its permit once.
C4_ReleasedAfterUpstreamNone ==
    /\ last.h.cause = "upstream_none"
    /\ last.h.acquired = 1
    /\ last.h.released = 1

\* C5: every fetch suspended in acquire_permit on the semaphore eventually
\* obtains a slot, every fetch that was started completes, and
\* active_requests is 0 again once all have returned.
C5_WaitersEventuallyServed ==
    /\ \A t \in Tasks :
          (pc[t] = "sem_wait") ~> (pc[t] \in {"sleep", "upstream"} /\ h[t].acquired = 1)
    /\ []<>(AllIdle /\ rl.active_requests = 0
              /\ rl.request_semaphore = MaxConcurrent)

\* C5 witness: a fetch that was suspended on the semaphore was the last to
\* return, after a provider call, and the pool is whole again.
C5_WaiterCompleted ==
    /\ last.h.waited
    /\ last.h.upstream = 1
    /\ AllIdle
    /\ rl.active_requests = 0
    /\ rl.request_semaphore = MaxConcurrent

\* C10 (as the claim states it): a fetch whose acquire_permit returned False
\* and a fetch whose provider call failed hand different outcomes to their
\* caller; stated for two fetches that return one after the other.
C10_DenialDistinguishable ==
    [][(last' # last
          /\ {last.h.cause, last'.h.cause} = {"denied", "upstream_none"})
        => last'.result # last.result]_vars

(* =========================== cache properties ========================= *)
\* C6: when redis answers the GET of a fetch with use_cache=True and holds
\* an entry for the fetch's key, the fetch returns that entry in the same
\* step, without a permit, without a provider call, and with every field of
\* the rate limiter and every request statistic of the service unchanged.
C6_CacheHitBypassesLimiter ==
    [][\A t \in Tasks :
        LET key == GetCacheKey(Category(req[t].operation), req[t].symbol) IN
        (pc[t] = "redis_get" /\ pc'[t] # "redis_get" /\ redis_up
            /\ RedisGet(redis, key) # {}) =>
          /\ pc'[t] = "idle"
          /\ last'.req = req[t]
          /\ last'.req.use_cache
          /\ \E e \in redis : e.key = key /\ e.val = JsonDumps(last'.result)
          /\ last'.h.acquired = 0
          /\ last'.h.upstream = 0
          /\ rl' = rl
          /\ svc' = svc
          /\ redis' = redis
      ]_vars

\* C6 witness: the last fetch returned an entry from the cache after the
\* provider had been asked once before.
C6_HitReturned ==
    /\ last.h.cause = "hit"
    /\ last.req.use_cache
    /\ last.result # None
    /\ rl.total_requests = 1
    /\ svc.successful_requests = 1

C8_NeverReturnedAfterTtl ==
    /\ (call.op = "get" /\ call.ret # None) =>
          call.at <= call.ret["_cached_at"] + call.ret["_cache_ttl"]
    /\ (/\ call.op = "get" /\ prev.op = "set" /\ prev.ret = TRUE
        /\ call.data_type = prev.data_type /\ call.identifier = prev.identifier
        /\ call.at > prev.at + CacheTtl(prev.data_type, prev.ttl))
       => call.ret = None

\* C8 witness: an entry was stored, its ttl and one more tick passed, and
\* the get of its key reported a miss while redis was reachable.
C8_MissAfterTtl ==
    /\ call.op = "get" /\ prev.op = "set" /\ prev.ret = TRUE
    /\ call.data_type = prev.data_type /\ call.identifier = prev.identifier
    /\ call.at = prev.at + CacheTtl(prev.data_type, prev.ttl) + 1
    /\ redis_up
    /\ call.ret = None

\* C9: while redis fails (or the cache is not initialized) no cache call
\* raises: a get is a miss, so the fetch goes on to the rate limiter as with
\* use_cache=False; a set returns False and the fetch returns what
\* _make_request returned; a delete returns False; and the database, the
\* cache statistics and the fetch's result never depend on the failed call.
C9_CacheFailuresAbsorbed ==
    [][/\ \A t \in Tasks :
          /\ (pc[t] = "redis_get" /\ pc'[t] # "redis_get" /\ ~redis_up) =>
                /\ cache' = cache /\ redis' = redis
                /\ \/ pc'[t] \in {"sem_wait", "sleep", "upstream"}
                   \/ /\ pc'[t] = "idle"
                      /\ last'.h.cause \in {"denied", "acquire_raised"}
          /\ (pc[t] = "redis_set" /\ pc'[t] # "redis_set" /\ ~redis_up) =>
                /\ cache' = cache /\ redis' = redis
                /\ pc'[t] = "idle"
                /\ last'.h.cause = "ok"
                /\ last'.result = h[t].mr
          /\ (pc[t] = "called" /\ pc'[t] # "called" /\ ~cache._initialized) =>
                pc'[t] # "redis_get"
          /\ (pc[t] = "upstream" /\ pc'[t] # "upstream" /\ ~cache._initialized) =>
                /\ pc'[t] = "idle"
                /\ last'.result = last'.h.mr
          /\ (pc[t] # "idle" /\ pc'[t] = "idle") =>
                /\ last'.h.cause # "exception"
                /\ last'.h.cause # "hit" => last'.result = last'.h.mr
       /\ (started' # started /\ pc' = pc /\ call'.op = "delete"
              /\ (~redis_up \/ ~cache._initialized)) =>
             call'.ret = FALSE /\ redis' = redis /\ cache' = cache
      ]_vars

\* C9 witness: with the cache initialized and redis unreachable, a fetch
\* with use_cache=True returned the provider's answer.
C9_FetchSurvivesRedisFailure ==
    /\ cache._initialized
    /\ ~redis_up
    /\ last.req.use_cache
    /\ last.h.cause = "ok"
    /\ last.result # None
    /\ redis = {}

\* C11: when the provider call of a fetch fails (_execute_request hands back
\* None), the fetch records a failure with the rate limiter, so that
\* consecutive_errors and total_errors each grow by one, and the fetch
\* returns None to its caller.
C11_UpstreamFailureRecorded ==
    [][\A t \in Tasks :
          (pc[t] = "upstream" /\ pc'[t] = "idle"
              /\ last'.h.cause = "upstream_none")
          => /\ rl'.consecutive_errors = rl.consecutive_errors + 1
             /\ rl'.total_errors = rl.total_errors + 1
             /\ last'.result = None]_vars

\* C18: any two provider calls start at least delay_between_requests apart:
\* whenever a fetch enters the provider call after an earlier one did
\* (last_request_time is stamped by wait_if_needed right before every
\* provider call), at least delay_between_requests has passed since.
C18_UpstreamStartsSpaced ==
    [][\A t \in Tasks :
          (pc[t] # "upstream" /\ pc'[t] = "upstream"
              /\ rl.last_request_time > 0)
          => now - rl.last_request_time >= DelayBetweenRequests]_vars

\* C17: under the exponential backoff strategy, after three provider
\* failures in a row (and nothing else: in this scenario every provider call
\* fails, so three completed requests none of which was refused), the fourth
\* request, arriving while the delay since the third is still running, sleeps
\* in wait_if_needed for at least multiplier^3 = 8 times the base delay.
C17_FourthWaitBackedOff ==
    [][\A t \in Tasks :
          (/\ h[t].acquired = 0 /\ h'[t].acquired = 1
           /\ svc.total_requests = 3 /\ svc.failed_requests = 0
           /\ \A u \in Tasks \ {t} : pc[u] = "idle"
           /\ now - rl.last_request_time < DelayBetweenRequests)
          => /\ pc'[t] = "sleep"
             /\ local'[t].wake_at - now
                  >= Pow(BackoffMultiplier, 3) * DelayBetweenRequests]_vars

\* C19: is_healthy returns False exactly when the daily or the hourly usage
\* is above 95% of its limit or there are more than 10 consecutive errors,
\* and True otherwise; the minute counter plays no part.
C19_UnhealthyExactlyAboveThresholds ==
    health.checked =>
        (health.ret = FALSE
           <=> \/ 100 * rl.daily_requests
                    > UnhealthyUsagePercent * health.daily_limit
               \/ 100 * rl.hourly_requests
                    > UnhealthyUsagePercent * health.hourly_limit
               \/ rl.consecutive_errors > MaxConsecutiveErrors)

\* is_healthy answered True with both usages at exactly 95%, exactly 10
\* consecutive errors and a minute counter that is not 0
C19_HealthyAtThresholds ==
    /\ health.checked /\ health.ret
    /\ 100 * rl.daily_requests = UnhealthyUsagePercent * health.daily_limit
    /\ 100 * rl.hourly_requests = UnhealthyUsagePercent * health.hourly_limit
    /\ rl.consecutive_errors = MaxConsecutiveErrors
    /\ rl.minute_requests > 0

\* C20: acquire_permit on an initialized limiter. Whenever, after its lazy
\* reset, the daily, hourly or minute counter is at or above its limit, it
\* returns False at once, free slots or not: the caller is not suspended and
\* holds nothing, active_requests and the pool are as before, and so are the
\* counters (but for the lazy reset itself). Otherwise it returns True with
\* active_requests one higher and one slot taken: at once when a slot is
\* free, or else after being suspended until one is.
C20_AcquirePermitContract ==
    [][\A t \in Tasks :
          LET called == /\ started' = started + 1
                        /\ call'.op = "acquire_permit"
                        /\ call'.task = t
              full == \/ rl'.daily_requests >= DailyLimit
                      \/ rl'.hourly_requests >= HourlyLimit
                      \/ rl'.minute_requests >= MinuteLimit
              taken == /\ call'.ret = "true"
                       /\ pc'[t] = "idle"
                       /\ h'[t].acquired = 1
                       /\ rl'.active_requests = rl.active_requests + 1
                       /\ rl'.request_semaphore = rl.request_semaphore - 1
              untouched == /\ rl'.active_requests = rl.active_requests
                           /\ rl'.request_semaphore = rl.request_semaphore
                           /\ h'[t].acquired = 0
          IN  /\ (called /\ rl._initialized) =>
                   IF full
                   THEN /\ call'.ret = "false"
                        /\ pc'[t] = "idle"
                        /\ untouched
                        /\ rl'.daily_requests =
                             IF rl'.last_reset_daily # rl.last_reset_daily
                             THEN 0 ELSE rl.daily_requests
                        /\ rl'.hourly_requests =
                             IF rl'.last_reset_hourly # rl.last_reset_hourly
                             THEN 0 ELSE rl.hourly_requests
                        /\ rl'.minute_requests =
                             IF rl'.last_reset_minute # rl.last_reset_minute
                             THEN 0 ELSE rl.minute_requests
                        /\ rl'.total_requests = rl.total_requests
                        /\ rl'.total_errors = rl.total_errors
                        /\ rl'.consecutive_errors = rl.consecutive_errors
                   ELSE IF rl.request_semaphore > 0
                   THEN taken
                   ELSE /\ call'.ret = "suspended"
                        /\ pc'[t] = "sem_wait"
                        /\ untouched
              /\ (pc[t] = "sem_wait" /\ pc'[t] = "idle") =>
                   /\ rl.request_semaphore > 0
                   /\ taken]_vars

\* acquire_permit has just returned False with every slot free
C20_RefusedWithFreeSlots ==
    /\ call.op = "acquire_permit"
    /\ call.ret = "false"
    /\ rl.request_semaphore = MaxConcurrent
    /\ rl.active_requests = 0

(* ========================== route properties ========================== *)
\* the fetch of the i-th symbol of the batch brought a quote with a price
Priced(i) ==
    /\ batch.returned[i] # None
    /\ Get(batch.returned[i], "price") # NullPrice
\* the response key k has a configured symbol whose quote has a price
Resolved(k) ==
    \E i \in 1 .. Len(batch.symbols) :
        SymbolMap(batch.symbols[i]) = k /\ Priced(i)
UnresolvedKeys ==
    {RequiredKeys[j] : j \in {x \in 1 .. Len(RequiredKeys) :
                                 ~Resolved(RequiredKeys[x])}}
Elements(seq) == {seq[i] : i \in 1 .. Len(seq)}

\* C13: when get_global_context has returned and a critical key (sp500,
\* nasdaq, vix) is unresolved, the outcome is ServiceUnavailable, its missing
\* list holds exactly the unresolved required keys, and every symbol whose
\* quote is null is in failed_symbols.
C13_CriticalMissingIsUnavailable ==
    (/\ batch.kind = "global_context"
     /\ batch.state = "returned"
     /\ \E k \in CriticalKeys : ~Resolved(k))
    => /\ batch.out.kind = "service_unavailable"
       /\ Elements(batch.out.missing) = UnresolvedKeys
       /\ \A i \in 1 .. Len(batch.symbols) :
             batch.returned[i] = None
             => batch.symbols[i] \in Elements(batch.out.failed_symbols)

\* C14: when get_global_context has returned, every critical key is
\* resolved and some non-critical key is not, the call succeeded and its
\* aggregate holds exactly the resolved keys and timestamp.
C14_NonCriticalMissingOmitted ==
    (/\ batch.kind = "global_context"
     /\ batch.state = "returned"
     /\ \A k \in CriticalKeys : Resolved(k)
     /\ UnresolvedKeys # {})
    => /\ batch.out.kind = "ok"
       /\ DOMAIN batch.out.body
            = (Elements(RequiredKeys) \ UnresolvedKeys) \cup {"timestamp"}

\* the fetches of the batch, by position in the caller's list
Fetches == 1 .. Len(batch.symbols)
\* those whose service call returned data
Succeeded == {i \in Fetches : batch.returned[i] # None}
\* those get_global_context counts as failed: no quote, or a quote without
\* a price for a symbol it has a key for
Failed ==
    {i \in Fetches : \/ batch.returned[i] = None
                     \/ SymbolMap(batch.symbols[i]) # NoKey /\ ~Priced(i)}

\* C12: when get_fundamentals_batch has returned, it has not raised, and its
\* map holds exactly the symbols with a fetch that succeeded, each with the
\* data of a fetch of that very symbol, whatever became of the others.
C12_FailedSymbolsIsolated ==
    (batch.kind = "fundamentals" /\ batch.state = "returned")
    => /\ batch.out.kind = "ok"
       /\ LET m == batch.out.body.fundamentals IN
          /\ {m[j][1] : j \in 1 .. Len(m)}
               = {batch.symbols[i] : i \in Succeeded}
          /\ \A j \in 1 .. Len(m) :
                \E i \in Succeeded :
                   /\ batch.symbols[i] = m[j][1]
                   /\ m[j][2].market_cap = Get(batch.returned[i], "market_cap")

\* a batch of three has returned: the fetch of the second symbol failed, the
\* map holds the first and the third
C12_MiddleSymbolFailed ==
    /\ batch.kind = "fundamentals" /\ batch.state = "returned"
    /\ batch.symbols = <<"AAPL", "TCS", "INFY">>
    /\ Succeeded = {1, 3}
    /\ Len(batch.out.body.fundamentals) = 2

\* C15: whatever the order in which the fetches of a batch completed, the
\* response pairs every symbol with the outcome of its own fetch and keeps
\* the caller's order: the fundamentals map lists the symbols that succeeded
\* in the order of the request (a repeated symbol at its first place, with
\* its last data), and the failed_symbols of global context lists the failed
\* symbols in the order they are configured.
C15_CallerOrderKept ==
    batch.state = "returned" =>
      IF batch.kind = "fundamentals"
      THEN /\ batch.out.kind = "ok"
           /\ LET m == batch.out.body.fundamentals
                  First == {i \in Succeeded :
                              \A j \in Succeeded :
                                 batch.symbols[j] = batch.symbols[i] => j >= i}
                  LastOf(i) == CHOOSE j \in Succeeded :
                                 /\ batch.symbols[j] = batch.symbols[i]
                                 /\ \A k \in Succeeded :
                                       batch.symbols[k] = batch.symbols[i]
                                       => k <= j
              IN  /\ Len(m) = Cardinality(First)
                  /\ \A i \in First :
                        LET a == Cardinality({j \in First : j < i}) + 1 IN
                        /\ m[a][1] = batch.symbols[i]
                        /\ m[a][2].market_cap
                             = Get(batch.returned[LastOf(i)], "market_cap")
      ELSE /\ batch.out.kind = "service_unavailable" =>
                LET fs == batch.out.failed_symbols IN
                /\ Len(fs) = Cardinality(Failed)
                /\ \A i \in Failed :
                      fs[Cardinality({j \in Failed : j < i}) + 1]
                        = batch.symbols[i]
           /\ batch.out.kind = "ok" =>
                \A i \in Fetches :
                   LET key == SymbolMap(batch.symbols[i]) IN
                   key # NoKey =>
                     /\ key \in DOMAIN batch.out.body <=> Priced(i)
                     /\ Priced(i) =>
                          IF key = "vix"
                          THEN batch.out.body[key].value
                                 = batch.returned[i].price
                          ELSE batch.out.body[key].price
                                 = batch.returned[i].price

\* a fundamentals batch has returned two or more symbols whose fetches did
\* not complete in the order of the request
C15_CompletedOutOfOrder ==
    /\ batch.kind = "fundamentals" /\ batch.state = "returned"
    /\ Len(batch.out.body.fundamentals) >= 2
    /\ batch.done[1] # 1
    /\ batch.returned[batch.done[1]] # None
    /\ batch.returned[1] # None

\* C16: a batch builds its response only when every fetch of the batch has
\* completed, successful or not, and while a fetch is inside its provider
\* call no other fetch of the batch is still waiting to be started.
C16_JoinedAndNotDelayed ==
    /\ batch.state = "returned" =>
          \A t \in Fetches :
             /\ pc[t] = "idle"
             /\ \E a \in 1 .. Len(batch.done) : batch.done[a] = t
    /\ batch.state = "gathering" =>
          \A t \in Fetches, u \in Fetches :
             ~(pc[t] = "upstream" /\ pc[u] = "called")

(* ==================== limiter operation properties ==================== *)
\* the step is a direct call of the limiter's operation op
Calls(op) == started' = started + 1 /\ call'.op = op
\* every window of limiter r contains the time t
WindowsCurrent(r, t) ==
    /\ r.last_reset_daily = Date(t)
    /\ r.last_reset_hourly <= t /\ t < r.last_reset_hourly + HourLen
    /\ r.last_reset_minute <= t /\ t < r.last_reset_minute + MinuteLen

\* C21: record_request(success) adds exactly 1 to total_requests and to the
\* daily, hourly and minute counters whatever success is; on success it sets
\* consecutive_errors to 0 and leaves total_errors alone, on failure it adds
\* 1 to both.
C21_RecordRequestCounts ==
    [][Calls("record_request") =>
          /\ rl'.total_requests = rl.total_requests + 1
          /\ rl'.daily_requests = rl.daily_requests + 1
          /\ rl'.hourly_requests = rl.hourly_requests + 1
          /\ rl'.minute_requests = rl.minute_requests + 1
          /\ IF call'.success
             THEN /\ rl'.consecutive_errors = 0
                  /\ rl'.total_errors = rl.total_errors
             ELSE /\ rl'.consecutive_errors = rl.consecutive_errors + 1
                  /\ rl'.total_errors = rl.total_errors + 1]_vars

\* a success has just been recorded right after two recorded failures
C21_SuccessAfterFailures ==
    /\ call.op = "record_request" /\ call.success
    /\ prev.op = "record_request" /\ ~prev.success
    /\ rl.consecutive_errors = 0
    /\ rl.total_errors = 2
    /\ rl.total_requests = 3

\* C24: no public operation of the RateLimiter raises, initialized or not.
C24_LimiterNeverRaises ==
    call.op \in {"acquire_permit", "release_permit", "wait_if_needed",
                 "record_request", "is_healthy"}
    => call.ret # "raise"

\* C28: a step that moves a window boundary zeroes that window's counter and
\* puts the boundary at the start of the window that contains now; and when
\* acquire_permit of an initialized limiter returns, True or False, every
\* window contains now.
C28_WindowsAlignedAfterAcquire ==
    [][/\ rl'.last_reset_daily # rl.last_reset_daily =>
             rl'.daily_requests = 0 /\ rl'.last_reset_daily = Date(now)
       /\ rl'.last_reset_hourly # rl.last_reset_hourly =>
             rl'.hourly_requests = 0 /\ rl'.last_reset_hourly = FloorHour(now)
       /\ rl'.last_reset_minute # rl.last_reset_minute =>
             /\ rl'.minute_requests = 0
             /\ rl'.last_reset_minute = FloorMinute(now)
       /\ \A t \in Tasks :
             (/\ rl._initialized
              /\ \/ /\ Calls("acquire_permit")
                    /\ call'.task = t
                    /\ call'.ret \in {"true", "false"}
                 \/ pc[t] = "sem_wait" /\ pc'[t] = "idle")
             => WindowsCurrent(rl', now')]_vars

\* C29: only a call of acquire_permit moves a window boundary or lowers a
\* window counter; record_request, release_permit, wait_if_needed,
\* get_statistics and is_healthy leave the boundaries where they are and
\* zero nothing, and is_healthy and get_statistics leave the limiter as it
\* is.
C29_ResetOnlyInAcquire ==
    [][/\ (\/ rl'.last_reset_daily # rl.last_reset_daily
           \/ rl'.last_reset_hourly # rl.last_reset_hourly
           \/ rl'.last_reset_minute # rl.last_reset_minute
           \/ rl'.daily_requests < rl.daily_requests
           \/ rl'.hourly_requests < rl.hourly_requests
           \/ rl'.minute_requests < rl.minute_requests)
          => Calls("acquire_permit")
       /\ (Calls("is_healthy") \/ Calls("get_statistics")) => rl' = rl
       /\ Calls("is_healthy") =>
             (call'.ret = "false"
              <=> \/ 100 * rl.daily_requests
                       > UnhealthyUsagePercent * DailyLimit
                  \/ 100 * rl.hourly_requests
                       > UnhealthyUsagePercent * HourlyLimit
                  \/ rl.consecutive_errors > MaxConsecutiveErrors)]_vars

\* the hour and the day have turned, no acquire_permit has run since, and
\* is_healthy has just answered False on the counts of the hour before
C29_UnhealthyOnStaleCounts ==
    /\ call.op = "is_healthy" /\ call.ret = "false"
    /\ now >= rl.last_reset_hourly + HourLen
    /\ Date(now) # rl.last_reset_daily
    /\ rl.hourly_requests >= HourlyLimit
    /\ rl.consecutive_errors = 0

(* ========================= cache properties =========================== *)
\* the entry redis holds for the key of (data_type, identifier), if any
Stored(data_type, identifier) ==
    {e \in redis : e.key = GetCacheKey(data_type, identifier)}

\* C22: a get of a key that redis holds unexpired, on an initialized cache
\* with redis reachable, returns the stored payload, leaves the entry, its
\* expiry and every other entry as they are, adds exactly 1 to hit_count and
\* changes no other counter; a get that follows a get of the same key which
\* hit returns the identical payload.
C22_GetIdempotent ==
    [][(/\ started' = started + 1
        /\ call'.op = "get"
        /\ cache._initialized /\ redis_up
        /\ Stored(call'.data_type, call'.identifier) # {})
       => /\ redis' = redis
          /\ cache' = [cache EXCEPT !.hit_count = @ + 1]
          /\ \E e \in Stored(call'.data_type, call'.identifier) :
                call'.ret = JsonLoads(e.val)
          /\ (/\ call.op = "get"
              /\ call.data_type = call'.data_type
              /\ call.identifier = call'.identifier
              /\ call.ret # None)
             => call'.ret = call.ret]_vars

\* the same key was read twice, one tick apart, and hit both times, after
\* exactly one set
C22_HitTwice ==
    /\ call.op = "get" /\ prev.op = "get"
    /\ call.data_type = prev.data_type /\ call.identifier = prev.identifier
    /\ call.ret # None /\ prev.ret # None
    /\ call.at = prev.at + 1
    /\ cache.hit_count = 2 /\ cache.set_count = 1

\* the cache key of the fetch with arguments q
FetchKey(q) == GetCacheKey(Category(q.operation), q.symbol)

\* C23: a fetch with use_cache=True on an initialized cache that got a
\* payload from the provider does not return before its set was answered;
\* it then returns that payload whether or not the set succeeded, and when
\* redis answered, redis holds under the key the fetch looked up the
\* payload's fields with the category's ttl left to live. An entry leaves
\* redis only by expiry, by delete or by being overwritten, and while it is
\* there a fetch of its key returns its fields without a provider call.
C23_WriteThrough ==
    [][/\ (/\ pc[1] = "upstream" /\ pc'[1] = "idle"
           /\ req[1].use_cache /\ cache._initialized)
          => last'.result = None
       /\ (pc[1] = "redis_set" /\ pc'[1] = "idle")
          => /\ last'.result = h[1].mr
             /\ last'.result # None
             /\ last'.h.upstream = 1
             /\ IF redis_up
                THEN \E e \in redis' :
                        /\ e.key = FetchKey(req[1])
                        /\ e.exp = now + GetTtl(Category(req[1].operation))
                        /\ \A k \in DOMAIN h[1].mr :
                              JsonLoads(e.val)[k] = h[1].mr[k]
                ELSE redis' = redis
       /\ \A e \in redis :
             e \notin redis'
             => \/ now' > e.exp
                \/ started' = started + 1 /\ call'.op = "delete"
                     /\ e.key = GetCacheKey(call'.data_type, call'.identifier)
                \/ \E e2 \in redis' : e2.key = e.key
       /\ (/\ pc[1] = "redis_get" /\ pc'[1] # "redis_get" /\ redis_up
           /\ \E e \in redis : e.key = FetchKey(req[1]))
          => /\ pc'[1] = "idle"
             /\ last'.h.upstream = 0
             /\ \E e \in redis : /\ e.key = FetchKey(req[1])
                                 /\ last'.result = JsonLoads(e.val)
             /\ rl'.total_requests = rl.total_requests]_vars

\* the provider was asked once, the payload was written through, and a
\* fetch of the same key on the last tick of the entry's ttl was a hit
C23_HitOnLastTickOfTtl ==
    /\ last.h.cause = "hit" /\ last.req.use_cache
    /\ last.result # None
    /\ rl.total_requests = 1
    /\ cache.set_count = 1
    /\ \E e \in redis : e.key = FetchKey(last.req) /\ e.exp = now

(* ========================= payload properties ========================= *)
\* the payload ret has exactly the keys of fields besides symbol and
\* timestamp, and each holds what info has under its provider field: the
\* value, zero included, or None when info lacks the field
Canonical(fields, info, ret) ==
    /\ DOMAIN ret = {"symbol", "timestamp"}
                      \cup {fields[i][1] : i \in 1 .. Len(fields)}
    /\ \A i \in 1 .. Len(fields) :
          ret[fields[i][1]] = IF fields[i][2] \in DOMAIN info
                              THEN info[fields[i][2]] ELSE << >>

\* C25: every quote and every fundamentals payload that is produced has the
\* full canonical key set; a key whose provider field is missing holds null,
\* not zero, and a provider value of zero stays zero.
C25_FullKeySetWithNulls ==
    /\ (call.op = "_get_quote_data" /\ call.ret # None)
       => Canonical(QuoteFields, call.info, call.ret)
    /\ (call.op = "_get_fundamental_data" /\ call.ret # None)
       => Canonical(FundamentalFields, call.info, call.ret)

\* a quote was built from an info dict with a price of zero, a market cap
\* that is None and no volume field at all
C25_ZeroPriceNoVolume ==
    /\ call.op = "_get_quote_data" /\ call.ret # None
    /\ "regularMarketPrice" \in DOMAIN call.info
    /\ call.info["regularMarketPrice"] = <<0>>
    /\ "marketCap" \in DOMAIN call.info
    /\ call.info["marketCap"] = << >>
    /\ "volume" \notin DOMAIN call.info
    /\ call.ret.price = <<0>>
    /\ call.ret.volume = << >>

(* ========================= report properties ========================== *)
\* C26: once the rate limiter has answered is_healthy with False, the health
\* report says unhealthy and the aggregate call ends in ServiceUnavailable.
C26_UnhealthyLimiterSurfaces ==
    (health.checked /\ ~health.ret)
    => /\ call.op = "health_check" => call.ret.status = "unhealthy"
       /\ batch.state = "returned" => batch.out.kind = "service_unavailable"

(* ====================== ttl and permit properties ===================== *)
\* C27: a set that succeeds hands redis an expiry of the per-call ttl when
\* one is given, whatever integer it is, 0 included, and of the category's
\* ttl otherwise, and stamps the same ttl into the stored payload.
C27_EffectiveTtlIsPerCall ==
    [][(started' = started + 1 /\ call'.op = "set" /\ call'.ret = TRUE)
       => LET effective == IF call'.ttl # NoTtl THEN call'.ttl[1]
                           ELSE GetTtl(call'.data_type) IN
          \E e \in redis' :
             /\ e.key = GetCacheKey(call'.data_type, call'.identifier)
             /\ e.exp = now + effective
             /\ JsonLoads(e.val)["_cache_ttl"] = effective]_vars

\* C30: within a fetch, wait_if_needed, the provider call and
\* record_request(True) lie between the grant of the permit and its release:
\* a fetch sleeps in wait_if_needed and enters the provider call only while
\* it holds a permit that the limiter counts; the step in which the provider
\* call returns finds the permit still held, records the request as a
\* success and releases the permit; and no permit is released in any other
\* step.
C30_PermitHeldAcrossRoundTrip ==
    [][/\ \A t \in Tasks :
          /\ pc'[t] \in {"sleep", "upstream"}
             => /\ h'[t].acquired = 1 /\ h'[t].released = 0
                /\ rl'.active_requests >= 1
                /\ rl'.request_semaphore < MaxConcurrent
          /\ (pc[t] = "upstream" /\ pc'[t] # "upstream")
             => /\ h[t].acquired = 1 /\ h[t].released = 0
                /\ rl'.total_requests = rl.total_requests + 1
                /\ rl'.total_errors = rl.total_errors
                /\ rl'.consecutive_errors = 0
                /\ rl'.active_requests = rl.active_requests - 1
                /\ rl'.request_semaphore = rl.request_semaphore + 1
                /\ last'.h.upstream = 1
       /\ (\/ rl'.active_requests < rl.active_requests
           \/ rl'.request_semaphore > rl.request_semaphore)
          => \E t \in Tasks : pc[t] = "upstream" /\ pc'[t] # "upstream"]_vars

\* a fetch that slept in wait_if_needed has made its provider call and
\* returned its payload, and no permit is out
C30_RoundTripWithWaitDone ==
    /\ last.h.cause = "ok"
    /\ last.h.acquired = 1 /\ last.h.released = 1 /\ last.h.upstream = 1
    /\ rl.total_delays = 1
    /\ rl.total_requests = 2
    /\ rl.active_requests = 0
(* ========================== backoff properties ======================== *)
\* C31: the sleep of one wait_if_needed call is at most
\* delay_between_requests * backoff_multiplier^5 whatever the error streak;
\* under exponential backoff it is the same for a streak of 5 and for any
\* longer one (the remaining delay times multiplier^5); under every other
\* strategy it never exceeds delay_between_requests.
C31_BackoffSleepCapped ==
    [][\A t \in Tasks :
          (pc[t] = "idle" /\ pc'[t] = "lim_sleep")
          => LET sleep == local'[t].wake_at - now
                 remaining == DelayBetweenRequests - (now - rl.last_request_time)
             IN /\ sleep > 0
                /\ sleep <= DelayBetweenRequests
                               * Pow(BackoffMultiplier, BackoffCap)
                /\ (strategy = "exponential_backoff"
                      /\ rl.consecutive_errors >= BackoffCap)
                   => sleep = remaining * Pow(BackoffMultiplier, BackoffCap)
                /\ strategy # "exponential_backoff"
                   => sleep <= DelayBetweenRequests]_vars

\* C31 witness: under exponential backoff a wait_if_needed called after a
\* streak longer than the cap slept multiplier^5 times the delay and returned
C31_SleptAtTheCap ==
    /\ strategy = "exponential_backoff"
    /\ rl.consecutive_errors > BackoffCap
    /\ call.op = "wait_if_needed" /\ call.ret = "none"
    /\ prev.op = "wait_if_needed" /\ prev.ret = "suspended"
    /\ call.task = prev.task
    /\ call.at - prev.at
         = DelayBetweenRequests * Pow(BackoffMultiplier, BackoffCap)

(* ========================== counter invariants ======================== *)
\* C33: in every state reached through acquire_permit and record_request
\* under a non-decreasing clock, minute_requests <= hourly_requests <=
\* daily_requests <= total_requests.
C33_CountersNested ==
    /\ rl.minute_requests <= rl.hourly_requests
    /\ rl.hourly_requests <= rl.daily_requests
    /\ rl.daily_requests <= rl.total_requests

\* C33 witness: requests were recorded before a day reset, after it, and
\* after a later reset of the minute window alone, so the counters differ
C33_WindowsResetApart ==
    /\ 0 < rl.minute_requests
    /\ rl.minute_requests < rl.hourly_requests
    /\ rl.daily_requests < rl.total_requests
    /\ rl.last_reset_daily > Date(StartTime)
    /\ rl.last_reset_minute > FloorMinute(rl.last_reset_hourly)

\* C34: in every state reached through the fetch orchestrator
\* active_requests is the number of permits held and is
\* max_concurrent_requests minus the free slots of the pool; so it lies in
\* 0 .. max_concurrent_requests and the pool never holds more free slots
\* than max_concurrent_requests.
C34_ActiveIsPermitsHeld ==
    /\ rl.active_requests = Cardinality({t \in Tasks : h[t].acquired - h[t].released = 1})
    /\ rl.active_requests = MaxConcurrent - rl.request_semaphore
    /\ 0 <= rl.active_requests /\ rl.active_requests <= MaxConcurrent
    /\ 0 <= rl.request_semaphore /\ rl.request_semaphore <= MaxConcurrent

\* C34 witness: after fetches that came and went, one permit is held by a
\* fetch inside its provider call while another fetch was refused a permit
C34_OneHeldAfterTraffic ==
    /\ rl.active_requests = 1
    /\ rl.total_requests >= 2
    /\ \E t \in Tasks : pc[t] = "upstream"
    /\ last # NoLast /\ last.h.acquired = 0

\* C35: every _make_request invocation records exactly one request with
\* the limiter and counts exactly one in the service, on the success, the
\* denial and the exception path; so whenever no invocation is running both
\* totals equal the number of invocations made, and successful_requests +
\* failed_requests = total_requests, the service's total_requests is the
\* limiter's total_requests and failed_requests is the limiter's
\* total_errors.
C35_OneRecordPerRequest ==
    LET running == Cardinality({t \in Tasks : pc[t] # "idle"}) IN
    /\ rl.total_requests = started - running
    /\ svc.total_requests = started - running
    /\ svc.successful_requests + svc.failed_requests = svc.total_requests
    /\ svc.total_requests = rl.total_requests
    /\ svc.failed_requests = rl.total_errors

\* C35 witness: no fetch is running after fetches that succeeded and
\* fetches that failed, the last of them denied a permit
C35_AllPathsTaken ==
    /\ \A t \in Tasks : pc[t] = "idle"
    /\ svc.successful_requests >= 1
    /\ svc.failed_requests >= 2
    /\ rl._initialized
    /\ last.h.cause = "denied"

\* C36 (as the claim states it): a fetch that is denied a permit consumes no
\* quota: apart from the lazy reset of its acquire_permit it leaves the
\* daily, hourly and minute counters, total_errors and consecutive_errors
\* as they were.
C36_DenialConsumesNoQuota ==
    [][\A t \in Tasks :
          (pc[t] = "called" /\ pc'[t] = "idle" /\ last'.h.cause = "denied")
          => LET r1 == ResetCountersIfNeeded(rl, now) IN
             /\ rl'.daily_requests = r1.daily_requests
             /\ rl'.hourly_requests = r1.hourly_requests
             /\ rl'.minute_requests = r1.minute_requests
             /\ rl'.total_errors = rl.total_errors
             /\ rl'.consecutive_errors = rl.consecutive_errors]_vars

(* ======================= shared cache properties ====================== *)
\* a payload without the stamps the cache adds
Unstamped(d) == [k \in DOMAIN d \ {"_cached_at", "_cache_ttl"} |-> d[k]]

\* task t's fetch returns in this step with the given cause
Returns(t, cause) ==
    pc[t] # "idle" /\ pc'[t] = "idle" /\ last'.h.cause = cause

\* C32: concurrent fetches of one key are last-write-wins: when the set of a
\* fetch completes, the cache holds under the key exactly one entry, the
\* stamped payload of that fetch's own provider call (never a mix of two
\* payloads); and a get of that key that hits next, after that set or after
\* a hit on it, returns that same payload.
C32_LastWriteWins ==
    [][\A t \in Tasks :
          /\ (pc[t] = "redis_set" /\ Returns(t, "ok"))
             => /\ {e \in redis' : e.key = FetchKey(req[t])}
                     = {[key |-> FetchKey(req[t]), val |-> local[t].val,
                         exp |-> now + local[t].cache_ttl]}
                /\ Unstamped(JsonLoads(local[t].val)) = h[t].mr
                /\ last'.result = h[t].mr
          /\ (/\ pc[t] = "redis_get" /\ Returns(t, "hit")
              /\ last.h.cause \in {"ok", "hit"}
              /\ FetchKey(last.req) = FetchKey(req[t]))
             => Unstamped(last'.result) = Unstamped(last.result)]_vars

\* C32 witness: two fetches missed the same key at the same time and each
\* wrote its payload (two sets, one entry, no entry old enough to have
\* expired), and a later get hit
C32_HitAfterConcurrentSets ==
    /\ cache.set_count >= 2
    /\ Cardinality(redis) = 1
    /\ now < StartTime + QuoteTtl
    /\ last.h.cause = "hit"
    /\ \A t \in Tasks : pc[t] = "idle"

\* C37 (as the claim states it): a payload served from the cache was fetched
\* upstream for the symbol and market of the request it answers: when a get
\* hits the entry that the fetch before it wrote or was served, both fetches
\* have the same provider symbol.
C37_CachedPayloadAnswersRequest ==
    [][\A t \in Tasks :
          (/\ pc[t] = "redis_get" /\ Returns(t, "hit")
           /\ last.h.cause \in {"ok", "hit"}
           /\ FetchKey(last.req) = FetchKey(req[t]))
          => ConvertSymbol(req[t].symbol, req[t].market)
               = ConvertSymbol(last.req.symbol, last.req.market)]_vars

\* C38: no negative caching. A fetch that returns null leaves the cache as
\* it was; an entry appears or changes only when the set of a fetch
\* completes whose own provider call returned a payload, and it is that
\* payload; so every entry is the payload of a provider call that
\* succeeded; and after a fetch that missed the cache and failed, the next
\* request for the same key misses too and goes to _make_request again.
C38_NoNegativeCaching ==
    /\ [](\A e \in redis :
            LET d == Unstamped(JsonLoads(e.val)) IN
            /\ d \in UNION {UpstreamOutcomes([operation |-> "quote", symbol |-> s]) :
                              s \in Symbols} \ {None}
            /\ e.key = GetCacheKey("quote", d.symbol))
    /\ [][/\ \A t \in Tasks :
              (pc[t] # "idle" /\ pc'[t] = "idle" /\ last'.result = None)
              => redis' = redis
          /\ \A e \in redis' \ redis :
              \E t \in Tasks :
                 /\ pc[t] = "redis_set" /\ Returns(t, "ok")
                 /\ h[t].upstream = 1 /\ Truthy(h[t].mr)
                 /\ e.key = FetchKey(req[t])
                 /\ Unstamped(JsonLoads(e.val)) = h[t].mr
          /\ \A t \in Tasks :
              (/\ pc[t] = "redis_get" /\ pc'[t] # "redis_get"
               /\ last.result = None /\ last.req.use_cache
               /\ last.h.cause \in {"denied", "upstream_none", "acquire_raised"}
               /\ FetchKey(last.req) = FetchKey(req[t]))
              => /\ ~Returns(t, "hit")
                 /\ \/ pc'[t] \in {"sem_wait", "sleep", "upstream"}
                    \/ Returns(t, "denied") \/ Returns(t, "acquire_raised")]_vars

\* C38 witness: a fetch through the cache missed and failed upstream, and
\* the next fetch of the same key, through the cache again, missed and is
\* inside its own provider call
C38_RefetchedAfterFailure ==
    /\ last.result = None /\ last.h.cause = "upstream_none"
    /\ last.req.use_cache
    /\ cache.miss_count = 2
    /\ \E t \in Tasks :
          /\ pc[t] = "upstream"
          /\ req[t].use_cache
          /\ FetchKey(req[t]) = FetchKey(last.req)

(* ========================== search properties ========================= *)
\* C39 (as the claim states it): search_symbols(query, limit) returns at
\* most limit results for every limit >= 0; each result is a catalogue entry
\* whose symbol or name contains the query, letter case aside; the results
\* are in catalogue order; and a call repeated with the same query and limit
\* while the cached list is alive returns the same list from the cache.
C39_SearchWithinLimit ==
    [][call'.op = "search_symbols" /\ call' # call
       => LET index(r) == CHOOSE i \in 1 .. Len(CommonStocks) : CommonStocks[i] = r
              stored == {e \in redis :
                           e.key = GetCacheKey("search",
                                      SearchCacheKey(call'.query, call'.limit))}
          IN
          /\ Len(call'.ret) <= call'.limit
          /\ \A k \in 1 .. Len(call'.ret) :
                /\ \E i \in 1 .. Len(CommonStocks) : CommonStocks[i] = call'.ret[k]
                /\ StockMatches(Upper(call'.query), call'.ret[k])
          /\ \A j, k \in 1 .. Len(call'.ret) :
                j < k => index(call'.ret[j]) < index(call'.ret[k])
          /\ (/\ call.op = "search_symbols"
              /\ call.query = call'.query /\ call.limit = call'.limit
              /\ stored # {}
              /\ cache._initialized /\ redis_up)
             => call'.hit /\ call'.ret = call.ret]_vars

====
